---- MODULE Spec2Model ----
(***************************************************************************)
(* Vecord: a bridge between one Discord channel and Nostr private direct   *)
(* messages.  The model covers the subscriber registry (SubscriberList),   *)
(* the profile cache (MetadataCache / UserMetadata), the command handling  *)
(* and relay gating of the inbound notification task, the outbound sender  *)
(* task, the Discord gateway handler and the forwarding tasks of main.     *)
(*                                                                         *)
(* Strings the program inspects (trim, ==, starts_with, format!) are       *)
(* sequences of one-character strings; strings it only passes on (the      *)
(* fixed reply texts) are TLA+ strings.  Option<T> is a sequence of length *)
(* 0 (None) or 1 (Some(v)).                                                *)
(***************************************************************************)
EXTENDS Integers, Sequences, FiniteSets, TLC

VARIABLES
    config,       \* Config: which of the two optional file paths are set
    now,          \* SystemTime::now() in seconds since the epoch
    subscribers,  \* SubscriberList.subscribers: HashSet<PublicKey>
    subFile,      \* the subscribers file: a sequence of lines
    cache,        \* MetadataCache.cache: HashMap<String, UserMetadata>
    cacheFile,    \* the metadata cache file: Option of the serialized map
    inPc,         \* position of the inbound notification task
    inTmp,        \* what the inbound task holds across its await
    cur,          \* the inbound event being (or last) evaluated, with its effects
    inLeft,       \* inbound notifications still to be delivered in this run
    n2dQ,         \* nostr_to_discord channel (main.rs)
    posted,       \* messages handed to DiscordBot::send_message, in order
    d2nQ,         \* discord_to_nostr channel (main.rs)
    fwd,          \* the message the discord-to-nostr forwarding task holds
    nostrQ,       \* nostr_sender channel (NostrClient::start)
    outPc,        \* position of the outbound sender task
    outMsg,       \* the message the outbound task is fanning out
    outSnap,      \* the Vec get_all() returned for outMsg
    outTodo,      \* recipients of outMsg not yet attempted, in iteration order
    outLog,       \* send attempts made for outMsg, in order
    gwLeft,       \* gateway events still to be delivered in this run
    regOps,       \* registry operations applied directly, latest first (SpecRegistry)
    fcall,        \* fetch_metadata calls made directly (SpecCache)
    probe,        \* the latest call of a function applied on its own, with its result
    subLock,      \* who holds the Mutex of SubscriberList.subscribers (SpecLocks)
    cacheLock,    \* who holds the Mutex of MetadataCache.cache (SpecLocks)
    saveTodo,     \* the pubkeys save_to_file's loop has yet to write (SpecLocks)
    gwPending     \* what gateway handlers hold at message_sender.send(..).await (SpecQueues)

vars == <<config, now, subscribers, subFile, cache, cacheFile, inPc, inTmp, cur,
          inLeft, n2dQ, posted, d2nQ, fwd, nostrQ, outPc, outMsg, outSnap,
          outTodo, outLog, gwLeft, regOps, fcall, probe,
                subLock, cacheLock, saveTodo, gwPending>>

----------------------------------------------------------------------------
(* Bounds of the model *)

\* identities other than the bridge's own: 1..NumIds
NumIds == 2
\* inbound notifications delivered in one run of the inbound direction alone
MaxInbound == 3
\* inbound notifications and gateway events delivered in one run of the pipeline
MaxPipeInbound == 3
MaxChat == 1
\* clock steps in one run
MaxTicks == 2
\* characters after "npub1" in the modelled bech32 text (58 in reality)
NpubBodyLen == 8
\* fetch_metadata calls in one run of the cache under test
MaxFetch == 3
\* lines of a subscribers file read on its own
MaxLines == 3
\* inbound notifications delivered in one run of the command handler over a file
MaxCommands == 3
\* inbound notifications and gateway events in one run of the two tasks with their locks
MaxLockEvents == 2
MaxLockChat == 1
\* gateway events and inbound notifications that arrive on top of a backlog
MaxQueueChat == 2
MaxQueueInbound == 2
\* chat messages, or relayed messages, whose order is followed through the bridge
MaxOrderChat == 2
MaxOrderInbound == 2
\* gateway events of any channel, author and kind in one run of the handler
MaxGatewayEvents == 2
\* private messages in one run of the command recognition
MaxRecognize == 2
\* chat messages whose content is a command or plain text
MaxChatCommands == 2
\* calls of put and get in one run of the cache on its own
MaxPuts == 2
\* chat messages and commands in one run under fair scheduling
MaxLiveChat == 2
MaxLiveInbound == 1

----------------------------------------------------------------------------
(* Program constants *)

\* const CACHE_LIFETIME: Duration = Duration::from_secs(60 * 60 * 24)
CACHE_LIFETIME == 86400
\* mpsc::channel::<BridgeMessage>(100)
CHANNEL_CAPACITY == 100

\* a wall clock in the 2020s; each step is a little over half the lifetime
StartTime == 20000 * CACHE_LIFETIME
TickStep == (CACHE_LIFETIME \div 2) + 1

----------------------------------------------------------------------------
(* Option and small helpers *)

None == <<>>
Some(v) == <<v>>
IsSome(o) == Len(o) = 1
Unwrap(o) == o[1]

RECURSIVE SeqsOf(_)
\* all orderings of a finite set (the iteration orders of a HashSet)
SeqsOf(S) ==
    IF S = {} THEN {<<>>}
    ELSE UNION {{<<x>> \o t : t \in SeqsOf(S \ {x})} : x \in S}

RECURSIVE SubSeqs(_)
\* all subsequences of a sequence (the lines of a write that got through)
SubSeqs(s) ==
    IF s = <<>> THEN {<<>>}
    ELSE LET r == SubSeqs(Tail(s)) IN r \cup {<<Head(s)>> \o t : t \in r}

Range(s) == {s[k] : k \in 1..Len(s)}

----------------------------------------------------------------------------
(* Strings *)

Whitespace == {" ", "\n"}

RECURSIVE trim_start(_)
trim_start(s) ==
    IF s # <<>> /\ Head(s) \in Whitespace THEN trim_start(Tail(s)) ELSE s

RECURSIVE trim_end(_)
trim_end(s) ==
    IF s # <<>> /\ s[Len(s)] \in Whitespace
    THEN trim_end(SubSeq(s, 1, Len(s) - 1)) ELSE s

\* str::trim
trim(s) == trim_end(trim_start(s))

\* str::starts_with
starts_with(s, p) == Len(s) >= Len(p) /\ SubSeq(s, 1, Len(p)) = p

CmdSubscribe == <<"!","s","u","b","s","c","r","i","b","e">>
CmdUnsubscribe == <<"!","u","n","s","u","b","s","c","r","i","b","e">>
CmdHelp == <<"!","h","e","l","p">>
Commands == {CmdSubscribe, CmdUnsubscribe, CmdHelp}

ReplySubscribed ==
    "You are now subscribed to the Discord channel. You will receive all messages from the Discord channel. Send !unsubscribe to stop receiving messages."
ReplyAlreadySubscribed == "You are already subscribed to the Discord channel."
ReplyUnsubscribed ==
    "You have been unsubscribed from the Discord channel. You will no longer receive messages."
ReplyNotCurrentlySubscribed ==
    "You are not currently subscribed to the Discord channel."
ReplyHelp ==
    "Available commands:\n!subscribe - Start receiving Discord messages\n!unsubscribe - Stop receiving Discord messages\n!help - Show this help message"
ReplyNotSubscribed ==
    "Your message was not forwarded to Discord because you're not subscribed. Send !subscribe to start forwarding your messages."

----------------------------------------------------------------------------
(* Identities *)

\* self.keys.public_key()
my_pubkey == 0
Identities == 1..NumIds
PublicKeys == {my_pubkey} \cup Identities
\* the one-time key a gift wrap is signed with
EphemeralKey == NumIds + 1

KeyChar(pk) == CASE pk = 0 -> "q" [] pk = 1 -> "p" [] pk = 2 -> "z"
                 [] pk = 3 -> "r" [] OTHER -> "y"
Npub == <<"n","p","u","b">>

\* PublicKey::to_bech32().unwrap_or_else(|_| to_string()): encoding a valid key
\* does not fail, so the text is always the npub form
to_bech32(pk) == Npub \o <<"1">> \o [k \in 1..NpubBodyLen |-> KeyChar(pk)]

\* PublicKey::to_string / to_hex
to_hex(pk) == [k \in 1..NpubBodyLen |-> IF k = 1 THEN "0" ELSE KeyChar(pk)]

KeyTexts == {to_bech32(pk) : pk \in PublicKeys}

\* parse_pubkey: Ok(key) as Some(key), Err as None
parse_pubkey(key_str) ==
    IF starts_with(key_str, Npub)
    THEN IF \E pk \in PublicKeys : to_bech32(pk) = key_str
         THEN Some(CHOOSE pk \in PublicKeys : to_bech32(pk) = key_str)
         ELSE None
    ELSE IF \E pk \in PublicKeys : to_hex(pk) = key_str
         THEN Some(CHOOSE pk \in PublicKeys : to_hex(pk) = key_str)
         ELSE None

----------------------------------------------------------------------------
(* UserMetadata (metadata.rs) *)

\* UserMetadata::new
UserMetadata_new(pubkey) ==
    [pubkey |-> to_bech32(pubkey), name |-> None, display_name |-> None,
     picture |-> None, nip05 |-> None, about |-> None, last_updated |-> 0]

\* UserMetadata::from_metadata, at clock reading t
UserMetadata_from_metadata(pubkey, metadata, t) ==
    [pubkey |-> to_bech32(pubkey), name |-> metadata.name,
     display_name |-> metadata.display_name, picture |-> metadata.picture,
     nip05 |-> metadata.nip05, about |-> metadata.about, last_updated |-> t]

is_blank(s) == trim(s) = <<>>

\* get_best_name without its last resort, the shortened pubkey
get_best_name_no_fallback(md) ==
    IF IsSome(md.display_name) /\ ~is_blank(Unwrap(md.display_name))
    THEN Unwrap(md.display_name)
    ELSE IF IsSome(md.name) THEN Unwrap(md.name) ELSE <<>>

\* a get_best_name that takes any display name that is set
get_best_name_any_display(md) ==
    IF IsSome(md.display_name) THEN Unwrap(md.display_name)
    ELSE IF IsSome(md.name) /\ ~is_blank(Unwrap(md.name)) THEN Unwrap(md.name)
    ELSE md.pubkey

\* UserMetadata::get_best_name
get_best_name(md) ==
    IF IsSome(md.display_name) /\ ~is_blank(Unwrap(md.display_name))
    THEN Unwrap(md.display_name)
    ELSE IF IsSome(md.name) /\ ~is_blank(Unwrap(md.name))
    THEN Unwrap(md.name)
    ELSE IF IsSome(md.nip05) /\ ~is_blank(Unwrap(md.nip05))
    THEN Unwrap(md.nip05)
    ELSE IF starts_with(md.pubkey, Npub) /\ Len(md.pubkey) > 12
    THEN SubSeq(md.pubkey, 1, 12) \o <<".", ".", ".">>
    ELSE md.pubkey

\* a staleness check that forgets the lifetime
needs_refresh_no_lifetime(md, t) == t > md.last_updated

\* UserMetadata::needs_refresh, at clock reading t
needs_refresh(md, t) == t > md.last_updated + CACHE_LIFETIME

\* UserMetadata::should_fetch (no caller in the program)
should_fetch(md, t) ==
    (md.name = None /\ md.display_name = None) \/ needs_refresh(md, t)

\* what the transport's fetch_metadata can hand back as Ok(Some(metadata))
NameBob == <<"b","o","b">>
NameBlank == <<" ", " ">>
Nip05Bob == <<"b","@","x">>
PictureUrl == <<"h","t","t","p",":","/","/","a">>
FetchedMetadata ==
    { [name |-> Some(NameBob), display_name |-> None, picture |-> Some(PictureUrl),
       nip05 |-> None, about |-> None],
      [name |-> None, display_name |-> None, picture |-> None,
       nip05 |-> None, about |-> None],
      [name |-> None, display_name |-> Some(NameBlank), picture |-> None,
       nip05 |-> Some(Nip05Bob), about |-> None] }

\* Result<Option<Metadata>> of client.fetch_metadata(pubkey, 15 s)
FetchResults ==
    {[tag |-> "Found", metadata |-> m] : m \in FetchedMetadata}
        \cup {[tag |-> "NotFound"], [tag |-> "Error"]}

\* what the transport reports for each thing that can happen to the request;
\* a timeout surfaces as "nothing found" or as an error, the transport decides
FetchOutcomes == {"found", "none", "error", "timeout"}
TransportResults(outcome) ==
    CASE outcome = "found" -> {r \in FetchResults : r.tag = "Found"}
      [] outcome = "none" -> {[tag |-> "NotFound"]}
      [] outcome = "error" -> {[tag |-> "Error"]}
      [] outcome = "timeout" -> {[tag |-> "NotFound"], [tag |-> "Error"]}

----------------------------------------------------------------------------
(* MetadataCache (metadata.rs) *)

EmptyCache == [k \in KeyTexts |-> None]

\* MetadataCache::new: the map the cache starts with, given the file
MetadataCache_new(file_path, file) ==
    IF file_path /\ IsSome(file) THEN Unwrap(file) ELSE EmptyCache

\* MetadataCache::get
MetadataCache_get(c, pubkey) == c[to_bech32(pubkey)]

\* an insert that starts the map afresh
HashMap_insert_fresh(c, md) == [EmptyCache EXCEPT ![md.pubkey] = Some(md)]

\* the insert of MetadataCache::put
HashMap_insert(c, md) == [c EXCEPT ![md.pubkey] = Some(md)]

\* MetadataCache::save_to_file: the files a write of map c can leave behind
\* (written in full; not opened, so left alone; opened and cut short)
CacheIoOutcomes == {"ok", "not_opened", "cut_short"}
MetadataCache_save_to_file_io(file_path, c, file, io) ==
    IF ~file_path THEN file
    ELSE CASE io = "ok" -> Some(c)
           [] io = "not_opened" -> file
           [] io = "cut_short" -> None

MetadataCache_save_to_file(file_path, c, file) ==
    {MetadataCache_save_to_file_io(file_path, c, file, io) : io \in CacheIoOutcomes}

\* MetadataCache::put: the (cache, file) pairs it can end in
MetadataCache_put(file_path, c, file, md) ==
    LET c2 == HashMap_insert(c, md)
    IN  {[cache |-> c2, file |-> f] :
            f \in MetadataCache_save_to_file(file_path, c2, file)}

\* fetch_metadata up to its await: Some(md) when a cached entry is returned
\* at once, None when the network is asked
fetch_metadata_cached(c, pubkey, t) ==
    LET e == MetadataCache_get(c, pubkey)
    IN  IF IsSome(e) /\ ~needs_refresh(Unwrap(e), t) THEN e ELSE None

\* a fetch_metadata that treats "nothing found" as an error
fetch_metadata_built_strict(pubkey, res, t) ==
    IF res.tag = "Found"
    THEN Some(UserMetadata_from_metadata(pubkey, res.metadata, t))
    ELSE None

\* fetch_metadata after its await: the profile it builds and puts for the
\* transport's answer res, or None when `?` returns the error
fetch_metadata_built(pubkey, res, t) ==
    CASE res.tag = "Found" -> Some(UserMetadata_from_metadata(pubkey, res.metadata, t))
      [] res.tag = "NotFound" -> Some(UserMetadata_new(pubkey))
      [] res.tag = "Error" -> None

\* fetch_metadata after its await: the outcomes [cache, file, ret], ret being
\* Some(profile) for Ok(profile) and None for Err
fetch_metadata_resume(file_path, c, file, pubkey, res, t) ==
    LET b == fetch_metadata_built(pubkey, res, t)
    IN  IF IsSome(b)
        THEN {[cache |-> p.cache, file |-> p.file, ret |-> b] :
                 p \in MetadataCache_put(file_path, c, file, Unwrap(b))}
        ELSE {[cache |-> c, file |-> file, ret |-> None]}

----------------------------------------------------------------------------
(* SubscriberList (nostr/mod.rs) *)

RECURSIVE load_lines_abort(_)
\* a load that gives up at the first line that does not parse
load_lines_abort(lines) ==
    IF lines = <<>> THEN {}
    ELSE LET trimmed == trim(Head(lines))
         IN  IF trimmed = <<>> THEN load_lines_abort(Tail(lines))
             ELSE IF IsSome(parse_pubkey(trimmed))
             THEN {Unwrap(parse_pubkey(trimmed))} \cup load_lines_abort(Tail(lines))
             ELSE {}

RECURSIVE load_lines(_)
\* the loop of SubscriberList::new over contents.lines()
load_lines(lines) ==
    IF lines = <<>> THEN {}
    ELSE LET trimmed == trim(Head(lines))
             rest == load_lines(Tail(lines))
         IN  IF trimmed # <<>> /\ IsSome(parse_pubkey(trimmed))
             THEN {Unwrap(parse_pubkey(trimmed))} \cup rest
             ELSE rest

\* SubscriberList::new: the set loaded; readable is whether open and
\* read_to_string succeed
SubscriberList_new(file_path, readable, file) ==
    IF file_path /\ readable THEN load_lines(file) ELSE {}

\* an insert that reports "newly added" whatever the set held
HashSet_insert_ret_true(s, pubkey) == [set |-> s \cup {pubkey}, ret |-> TRUE]

\* HashSet::insert under the lock in SubscriberList::add
HashSet_insert(s, pubkey) == [set |-> s \cup {pubkey}, ret |-> pubkey \notin s]

\* a remove that reports "was present" whatever the set held
HashSet_remove_ret_true(s, pubkey) == [set |-> s \ {pubkey}, ret |-> TRUE]

\* a remove that reports the truth and leaves the entry in the set
HashSet_remove_keeps(s, pubkey) == [set |-> s, ret |-> pubkey \in s]

\* HashSet::remove under the lock in SubscriberList::remove
HashSet_remove(s, pubkey) == [set |-> s \ {pubkey}, ret |-> pubkey \in s]

\* what the file system does to one save: File::create and every writeln
\* succeed, File::create fails, or File::create succeeds and a writeln fails
IoOutcomes == {"ok", "create_fails", "write_fails"}

\* SubscriberList::save_to_file when the file system does io: the files a
\* write of set s can leave behind.  No path: nothing is touched.  Otherwise
\* the lines whose writeln succeeded, in the set's iteration order: all of
\* them, or (File::create failed) the old file, or some but not all
SubscriberList_save_to_file_io(file_path, s, file, io) ==
    IF ~file_path THEN {file}
    ELSE LET listings == SeqsOf({to_bech32(pk) : pk \in s})
         IN  CASE io = "ok" -> listings
               [] io = "create_fails" -> {file}
               [] io = "write_fails" ->
                    {t \in UNION {SubSeqs(o) : o \in listings} : Len(t) < Cardinality(s)}

\* SubscriberList::save_to_file: the files a write of set s can leave behind
SubscriberList_save_to_file(file_path, s, file) ==
    UNION {SubscriberList_save_to_file_io(file_path, s, file, io) : io \in IoOutcomes}

\* an add that undoes the insert and reports false when the write fails
SubscriberList_add_rollback(file_path, s, file, pubkey, io) ==
    LET r == HashSet_insert(s, pubkey)
    IN  IF r.ret /\ file_path /\ io # "ok"
        THEN {[set |-> s, file |-> f, ret |-> FALSE] :
                f \in SubscriberList_save_to_file_io(file_path, r.set, file, io)}
        ELSE {[set |-> r.set, file |-> f, ret |-> r.ret] :
                f \in IF r.ret
                      THEN SubscriberList_save_to_file_io(file_path, r.set, file, io)
                      ELSE {file}}

\* SubscriberList::add when the file system does io: the outcomes [set, file, ret]
SubscriberList_add_io(file_path, s, file, pubkey, io) ==
    LET r == HashSet_insert(s, pubkey)
    IN  {[set |-> r.set, file |-> f, ret |-> r.ret] :
            f \in IF r.ret
                  THEN SubscriberList_save_to_file_io(file_path, r.set, file, io)
                  ELSE {file}}

\* SubscriberList::add: the outcomes [set, file, ret]
SubscriberList_add(file_path, s, file, pubkey) ==
    UNION {SubscriberList_add_io(file_path, s, file, pubkey, io) : io \in IoOutcomes}

\* a remove that leaves the file as it is
SubscriberList_remove_unsaved(file_path, s, file, pubkey, io) ==
    LET r == HashSet_remove(s, pubkey)
    IN  {[set |-> r.set, file |-> file, ret |-> r.ret]}

\* SubscriberList::remove when the file system does io: the outcomes [set, file, ret]
SubscriberList_remove_io(file_path, s, file, pubkey, io) ==
    LET r == HashSet_remove(s, pubkey)
    IN  {[set |-> r.set, file |-> f, ret |-> r.ret] :
            f \in IF r.ret
                  THEN SubscriberList_save_to_file_io(file_path, r.set, file, io)
                  ELSE {file}}

\* SubscriberList::remove: the outcomes [set, file, ret]
SubscriberList_remove(file_path, s, file, pubkey) ==
    UNION {SubscriberList_remove_io(file_path, s, file, pubkey, io) : io \in IoOutcomes}

\* a gate that lets everyone through
SubscriberList_contains_always(s, pubkey) == TRUE

\* SubscriberList::contains
SubscriberList_contains(s, pubkey) == pubkey \in s

\* SubscriberList::get_all: the Vec in the set's iteration order
SubscriberList_get_all(s) == SeqsOf(s)

\* Config::new: metadata_cache_file defaults to a sibling of subscribers_file,
\* so it is unset only if METADATA_CACHE_FILE and SUBSCRIBERS_FILE both are
Configs ==
    {c \in [subscribers_file : BOOLEAN, metadata_cache_file : BOOLEAN] :
        c.subscribers_file => c.metadata_cache_file}

----------------------------------------------------------------------------
(* Messages (message.rs) *)

\* BridgeMessage::Nostr with its NostrMessageMetadata, as the inbound task builds it
nostr_bridge_message(message_content, sender_pubkey, metadata) ==
    [tag |-> "Nostr", content |-> message_content,
     metadata |-> [username |-> get_best_name(metadata),
                   pubkey |-> to_bech32(sender_pubkey),
                   avatar_url |-> metadata.picture]]

\* BridgeMessage::Discord as Handler::message builds it
discord_bridge_message(msg) ==
    [tag |-> "Discord", author |-> msg.author, content |-> msg.content]

DiscordPrefix == <<"[","D","i","s","c","o","r","d","]"," ">>

\* the format "[<author>]: <content>"
format_bracket_author(author, content) ==
    <<"[">> \o author \o <<"]", ":", " ">> \o content

\* format!("[Discord] {}: {}", author, content)
format_nostr_message(author, content) ==
    DiscordPrefix \o author \o <<":", " ">> \o content

----------------------------------------------------------------------------
(* Inputs *)

TextHey == <<"h","e","y">>
InboundTexts ==
    { <<" ">> \o CmdSubscribe \o <<"\n">>, CmdUnsubscribe, CmdHelp,
      <<" ">> \o TextHey }

KindPrivateDirectMessage == "PrivateDirectMessage"
KindOther == "TextNote"

\* RelayPoolNotification::Event: the gift wrap's own pubkey, and what
\* unwrap_gift_wrap yields for it: the rumor and its sender, or Err, and then
\* there is no rumor to speak of (the fields are placeholders nothing reads)
InboundEvents ==
    [pubkey : {my_pubkey, EphemeralKey}, decrypt_ok : {TRUE},
     sender : PublicKeys, kind : {KindPrivateDirectMessage, KindOther},
     content : InboundTexts]
    \cup
    [pubkey : {my_pubkey, EphemeralKey}, decrypt_ok : {FALSE},
     sender : {EphemeralKey}, kind : {KindOther}, content : {<<>>}]

\* the transport's answers when both directions run: one profile, none, an error
PipeFetchResults ==
    {r \in FetchResults : r.tag = "Found" => r.metadata.name = Some(NameBob)}

\* the events fed to the pipeline when both directions run
PipeSenders == {1, 2}
PipeEvents ==
    {ev \in InboundEvents :
        ev.pubkey = EphemeralKey /\ ev.decrypt_ok /\ ev.sender \in PipeSenders}

AuthorAlice == <<"a","l","i","c","e">>
TextHi == <<"h","i">>
ConfiguredChannel == "configured"
GatewayMessages ==
    [channel_id : {ConfiguredChannel, "elsewhere"}, bot : BOOLEAN,
     kind : {"Regular", "InlineReply", "MemberJoin"},
     author : {AuthorAlice}, content : {TextHi, CmdSubscribe}]

InitialSubFiles == {<<>>, <<to_bech32(1)>>}

----------------------------------------------------------------------------
(* State after construction (NostrClient::new, main) *)

NoEvent == [outcome |-> "None"]

\* the tasks before their first step, with nothing posted or logged yet
InitTasks ==
    /\ inPc = "idle" /\ inTmp = None /\ cur = NoEvent
    /\ posted = <<>>
    /\ fwd = None
    /\ outPc = "idle" /\ outMsg = None /\ outSnap = <<>> /\ outTodo = <<>>
    /\ outLog = <<>>
    /\ regOps = <<>>
    /\ fcall = [n |-> 0, pend |-> None, last |-> None,
                hist |-> [k \in Identities |-> <<>>]]
    /\ probe = None
    /\ subLock = "free" /\ cacheLock = "free" /\ saveTodo = <<>>
    /\ gwPending = <<>>

\* the three channels as mpsc::channel(100) returns them, and the tasks
InitPipeline ==
    /\ n2dQ = <<>> /\ d2nQ = <<>> /\ nostrQ = <<>>
    /\ InitTasks

\* NostrClient::new under configuration c, with file f as the subscribers file
InitStores(c, f) ==
    /\ config = c
    /\ now = StartTime
    /\ subFile = f
    /\ subscribers = SubscriberList_new(config.subscribers_file, TRUE, subFile)
    /\ cacheFile = None
    /\ cache = MetadataCache_new(config.metadata_cache_file, cacheFile)

\* neither SUBSCRIBERS_FILE nor METADATA_CACHE_FILE is set
NoFiles == [subscribers_file |-> FALSE, metadata_cache_file |-> FALSE]

\* the pipeline, both directions, started without files
Init ==
    /\ InitStores(NoFiles, <<>>)
    /\ InitPipeline
    /\ inLeft = MaxPipeInbound
    /\ gwLeft = MaxChat

----------------------------------------------------------------------------
(* The inbound notification task (NostrClient::start, second spawn) *)

\* the loop body with the subscription gate ahead of the commands
Classify_gate_first(ev, s) ==
    IF ev.pubkey = my_pubkey THEN "SelfFiltered"
    ELSE IF ~ev.decrypt_ok THEN "DecryptFailed"
    ELSE IF ev.kind # KindPrivateDirectMessage THEN "KindFiltered"
    ELSE IF ~SubscriberList_contains(s, ev.sender) /\ trim(ev.content) # CmdSubscribe
    THEN "NotSubscribed"
    ELSE IF trim(ev.content) = CmdSubscribe THEN "Subscribe"
    ELSE IF trim(ev.content) = CmdUnsubscribe THEN "Unsubscribe"
    ELSE IF trim(ev.content) = CmdHelp THEN "Help"
    ELSE "Relay"

\* the loop body with the commands ahead of the kind check
Classify_commands_first(ev, s) ==
    IF ev.pubkey = my_pubkey THEN "SelfFiltered"
    ELSE IF ~ev.decrypt_ok THEN "DecryptFailed"
    ELSE IF trim(ev.content) = CmdSubscribe THEN "Subscribe"
    ELSE IF trim(ev.content) = CmdUnsubscribe THEN "Unsubscribe"
    ELSE IF trim(ev.content) = CmdHelp THEN "Help"
    ELSE IF ev.kind # KindPrivateDirectMessage THEN "KindFiltered"
    ELSE IF SubscriberList_contains(s, ev.sender) THEN "Relay"
    ELSE "NotSubscribed"

\* a loop body without the test of rumor.kind
Classify_any_kind(ev, s) ==
    IF ev.pubkey = my_pubkey THEN "SelfFiltered"
    ELSE IF ~ev.decrypt_ok THEN "DecryptFailed"
    ELSE IF trim(ev.content) = CmdSubscribe THEN "Subscribe"
    ELSE IF trim(ev.content) = CmdUnsubscribe THEN "Unsubscribe"
    ELSE IF trim(ev.content) = CmdHelp THEN "Help"
    ELSE IF SubscriberList_contains(s, ev.sender) THEN "Relay"
    ELSE "NotSubscribed"

\* a loop body that takes text beginning with a command for the command
Classify_by_prefix(ev, s) ==
    IF ev.pubkey = my_pubkey THEN "SelfFiltered"
    ELSE IF ~ev.decrypt_ok THEN "DecryptFailed"
    ELSE IF ev.kind # KindPrivateDirectMessage THEN "KindFiltered"
    ELSE IF starts_with(trim(ev.content), CmdSubscribe) THEN "Subscribe"
    ELSE IF starts_with(trim(ev.content), CmdUnsubscribe) THEN "Unsubscribe"
    ELSE IF starts_with(trim(ev.content), CmdHelp) THEN "Help"
    ELSE IF SubscriberList_contains(s, ev.sender) THEN "Relay"
    ELSE "NotSubscribed"

\* which branch of the loop body an event takes, given the registry
Classify(ev, s) ==
    IF ev.pubkey = my_pubkey THEN "SelfFiltered"
    ELSE IF ~ev.decrypt_ok THEN "DecryptFailed"
    ELSE IF ev.kind # KindPrivateDirectMessage THEN "KindFiltered"
    ELSE IF trim(ev.content) = CmdSubscribe THEN "Subscribe"
    ELSE IF trim(ev.content) = CmdUnsubscribe THEN "Unsubscribe"
    ELSE IF trim(ev.content) = CmdHelp THEN "Help"
    ELSE IF SubscriberList_contains(s, ev.sender) THEN "Relay"
    ELSE "NotSubscribed"

Evaluation(ev, outcome) ==
    [outcome |-> outcome, ev |-> ev, text |-> trim(ev.content),
     member |-> SubscriberList_contains(subscribers, ev.sender),
     before |-> subscribers,
     replies |-> <<>>, fetched |-> <<>>, enq |-> <<>>]

InboundIdle == /\ inPc = "idle" /\ inLeft > 0

OutboundUnchanged ==
    UNCHANGED <<d2nQ, fwd, nostrQ, outPc, outMsg, outSnap, outTodo, outLog, gwLeft, gwPending>>

\* `continue` on our own event, on a failed unwrap, on another kind
InDiscard(ev) ==
    /\ InboundIdle
    /\ Classify(ev, subscribers) \in {"SelfFiltered", "DecryptFailed", "KindFiltered"}
    /\ cur' = Evaluation(ev, Classify(ev, subscribers))
    /\ inLeft' = inLeft - 1
    /\ UNCHANGED <<config, now, subscribers, subFile, cache, cacheFile, inPc, inTmp,
                   n2dQ, posted, regOps, fcall, probe,
                subLock, cacheLock, saveTodo>>
    /\ OutboundUnchanged

\* "!subscribe": add, then the reply is on its way
InSubscribe(ev) ==
    /\ InboundIdle
    /\ Classify(ev, subscribers) = "Subscribe"
    /\ \E r \in SubscriberList_add(config.subscribers_file, subscribers, subFile, ev.sender) :
          /\ subscribers' = r.set
          /\ subFile' = r.file
          /\ inTmp' = IF r.ret THEN ReplySubscribed ELSE ReplyAlreadySubscribed
    /\ cur' = Evaluation(ev, "CommandHandled")
    /\ inPc' = "reply"
    /\ inLeft' = inLeft - 1
    /\ UNCHANGED <<config, now, cache, cacheFile, n2dQ, posted, regOps, fcall, probe,
                subLock, cacheLock, saveTodo>>
    /\ OutboundUnchanged

\* "!unsubscribe": remove, then the reply is on its way
InUnsubscribe(ev) ==
    /\ InboundIdle
    /\ Classify(ev, subscribers) = "Unsubscribe"
    /\ \E r \in SubscriberList_remove(config.subscribers_file, subscribers, subFile, ev.sender) :
          /\ subscribers' = r.set
          /\ subFile' = r.file
          /\ inTmp' = IF r.ret THEN ReplyUnsubscribed ELSE ReplyNotCurrentlySubscribed
    /\ cur' = Evaluation(ev, "CommandHandled")
    /\ inPc' = "reply"
    /\ inLeft' = inLeft - 1
    /\ UNCHANGED <<config, now, cache, cacheFile, n2dQ, posted, regOps, fcall, probe,
                subLock, cacheLock, saveTodo>>
    /\ OutboundUnchanged

\* "!help": the reply is on its way
InHelp(ev) ==
    /\ InboundIdle
    /\ Classify(ev, subscribers) = "Help"
    /\ inTmp' = ReplyHelp
    /\ cur' = Evaluation(ev, "CommandHandled")
    /\ inPc' = "reply"
    /\ inLeft' = inLeft - 1
    /\ UNCHANGED <<config, now, subscribers, subFile, cache, cacheFile, n2dQ, posted,
                   regOps, fcall, probe,
                subLock, cacheLock, saveTodo>>
    /\ OutboundUnchanged

\* other text from a sender the registry does not contain
InNotSubscribed(ev) ==
    /\ InboundIdle
    /\ Classify(ev, subscribers) = "NotSubscribed"
    /\ inTmp' = ReplyNotSubscribed
    /\ cur' = Evaluation(ev, "NotSubscribed")
    /\ inPc' = "reply"
    /\ inLeft' = inLeft - 1
    /\ UNCHANGED <<config, now, subscribers, subFile, cache, cacheFile, n2dQ, posted,
                   regOps, fcall, probe,
                subLock, cacheLock, saveTodo>>
    /\ OutboundUnchanged

\* other text from a subscriber: fetch_metadata returns the cached profile at
\* once, or asks the network and suspends
InRelay(ev) ==
    /\ InboundIdle
    /\ Classify(ev, subscribers) = "Relay"
    /\ LET hit == fetch_metadata_cached(cache, ev.sender, now)
           e == Evaluation(ev, "Relayed")
       IN  IF IsSome(hit)
           THEN /\ inPc' = "enqueue"
                /\ inTmp' = nostr_bridge_message(trim(ev.content), ev.sender, Unwrap(hit))
                /\ cur' = e
           ELSE /\ inPc' = "fetch"
                /\ inTmp' = None
                /\ cur' = e
    /\ inLeft' = inLeft - 1
    /\ UNCHANGED <<config, now, subscribers, subFile, cache, cacheFile, n2dQ, posted,
                   regOps, fcall, probe,
                subLock, cacheLock, saveTodo>>
    /\ OutboundUnchanged

\* chat.send_private_message(reply).await returns; `let _ =` drops the result
InReplySent(ok) ==
    /\ inPc = "reply"
    /\ cur' = [cur EXCEPT !.replies =
                  Append(@, [to |-> cur.ev.sender, text |-> inTmp, ok |-> ok])]
    /\ inPc' = "idle"
    /\ inTmp' = None
    /\ UNCHANGED <<config, now, subscribers, subFile, cache, cacheFile, inLeft, n2dQ,
                   posted, regOps, fcall, probe,
                subLock, cacheLock, saveTodo>>
    /\ OutboundUnchanged

\* the match on fetch_metadata's result: Err falls back to UserMetadata::new
metadata_or_default(ret, sender_pubkey) ==
    IF IsSome(ret) THEN Unwrap(ret) ELSE UserMetadata_new(sender_pubkey)

\* client.fetch_metadata(..).await returns and fetch_metadata with it
InFetchReturn(res) ==
    /\ inPc = "fetch"
    /\ \E r \in fetch_metadata_resume(config.metadata_cache_file, cache, cacheFile,
                                      cur.ev.sender, res, now) :
          /\ cache' = r.cache
          /\ cacheFile' = r.file
          /\ inTmp' = nostr_bridge_message(cur.text, cur.ev.sender,
                          metadata_or_default(r.ret, cur.ev.sender))
    /\ cur' = [cur EXCEPT !.fetched = Append(@, res.tag)]
    /\ inPc' = "enqueue"
    /\ UNCHANGED <<config, now, subscribers, subFile, inLeft, n2dQ, posted,
                   regOps, fcall, probe,
                subLock, cacheLock, saveTodo>>
    /\ OutboundUnchanged

\* discord_sender.send(bridge_message).await completes once the channel has room
InEnqueue ==
    /\ inPc = "enqueue"
    /\ Len(n2dQ) < CHANNEL_CAPACITY
    /\ n2dQ' = Append(n2dQ, inTmp)
    /\ cur' = [cur EXCEPT !.enq = Append(@, inTmp)]
    /\ inPc' = "idle"
    /\ inTmp' = None
    /\ UNCHANGED <<config, now, subscribers, subFile, cache, cacheFile, inLeft,
                   posted, regOps, fcall, probe,
                subLock, cacheLock, saveTodo>>
    /\ OutboundUnchanged

\* main's nostr-to-discord task: recv, then DiscordBot::send_message
DiscordPost ==
    /\ n2dQ # <<>>
    /\ posted' = Append(posted, Head(n2dQ))
    /\ n2dQ' = Tail(n2dQ)
    /\ UNCHANGED <<config, now, subscribers, subFile, cache, cacheFile, inPc, inTmp,
                   cur, inLeft, regOps, fcall, probe,
                subLock, cacheLock, saveTodo>>
    /\ OutboundUnchanged

\* the wall clock advances
Tick ==
    /\ now < StartTime + MaxTicks * TickStep
    /\ now' = now + TickStep
    /\ UNCHANGED <<config, subscribers, subFile, cache, cacheFile, inPc, inTmp, cur,
                   inLeft, n2dQ, posted, regOps, fcall, probe,
                subLock, cacheLock, saveTodo>>
    /\ OutboundUnchanged

----------------------------------------------------------------------------
(* The Discord gateway handler and the outbound direction *)

InboundUnchanged ==
    UNCHANGED <<config, now, subscribers, subFile, cache, cacheFile, inPc, inTmp, cur,
                inLeft, n2dQ, posted, regOps, fcall, probe,
                subLock, cacheLock, saveTodo>>

\* a handler without the test of msg.author.bot
handler_accepts_bots(msg) ==
    /\ msg.channel_id = ConfiguredChannel
    /\ msg.kind \in {"Regular", "InlineReply"}

\* the three early returns of Handler::message
handler_accepts(msg) ==
    /\ msg.channel_id = ConfiguredChannel
    /\ ~msg.bot
    /\ msg.kind \in {"Regular", "InlineReply"}

\* Handler::message returning early
GatewayIgnored(msg) ==
    /\ gwLeft > 0
    /\ ~handler_accepts(msg)
    /\ gwLeft' = gwLeft - 1
    /\ UNCHANGED <<d2nQ, fwd, nostrQ, outPc, outMsg, outSnap, outTodo, outLog, gwPending>>
    /\ InboundUnchanged

\* Handler::message: message_sender.send(bridge_message).await completes once
\* the channel has room
GatewayAccepted(msg) ==
    /\ gwLeft > 0
    /\ handler_accepts(msg)
    /\ Len(d2nQ) < CHANNEL_CAPACITY
    /\ d2nQ' = Append(d2nQ, discord_bridge_message(msg))
    /\ gwLeft' = gwLeft - 1
    /\ UNCHANGED <<fwd, nostrQ, outPc, outMsg, outSnap, outTodo, outLog, gwPending>>
    /\ InboundUnchanged

\* a forwarding task that takes the newest message of the channel
ForwardRecv_newest ==
    /\ fwd = None
    /\ d2nQ # <<>>
    /\ fwd' = Some(d2nQ[Len(d2nQ)])
    /\ d2nQ' = SubSeq(d2nQ, 1, Len(d2nQ) - 1)
    /\ UNCHANGED <<nostrQ, outPc, outMsg, outSnap, outTodo, outLog, gwLeft, gwPending>>
    /\ InboundUnchanged

\* main's discord-to-nostr task: discord_to_nostr_rx.recv()
ForwardRecv ==
    /\ fwd = None
    /\ d2nQ # <<>>
    /\ fwd' = Some(Head(d2nQ))
    /\ d2nQ' = Tail(d2nQ)
    /\ UNCHANGED <<nostrQ, outPc, outMsg, outSnap, outTodo, outLog, gwLeft, gwPending>>
    /\ InboundUnchanged

\* main's discord-to-nostr task: nostr_sender.send(message).await
ForwardSend ==
    /\ fwd # None
    /\ Len(nostrQ) < CHANNEL_CAPACITY
    /\ nostrQ' = Append(nostrQ, Unwrap(fwd))
    /\ fwd' = None
    /\ UNCHANGED <<d2nQ, outPc, outMsg, outSnap, outTodo, outLog, gwLeft, gwPending>>
    /\ InboundUnchanged

\* an outbound task that takes a chat message whose content is a command for
\* a command and sends it to nobody
OutRecv_interprets ==
    /\ outPc = "idle"
    /\ nostrQ # <<>>
    /\ nostrQ' = Tail(nostrQ)
    /\ LET message == Head(nostrQ)
       IN  IF message.tag = "Discord" /\ message.content \notin Commands
           THEN /\ outMsg' = Some([author |-> message.author,
                                   content |-> message.content,
                                   nostr_message |->
                                       format_nostr_message(message.author, message.content)])
                /\ outSnap' \in SubscriberList_get_all(subscribers)
                /\ outTodo' = outSnap'
                /\ outLog' = <<>>
                /\ outPc' = IF outSnap' = <<>> THEN "idle" ELSE "sending"
           ELSE UNCHANGED <<outMsg, outSnap, outTodo, outLog, outPc>>
    /\ UNCHANGED <<d2nQ, fwd, gwLeft, gwPending>>
    /\ InboundUnchanged

\* the outbound sender task: recv, format, get_all
OutRecv ==
    /\ outPc = "idle"
    /\ nostrQ # <<>>
    /\ nostrQ' = Tail(nostrQ)
    /\ LET message == Head(nostrQ)
       IN  IF message.tag = "Discord"
           THEN /\ outMsg' = Some([author |-> message.author,
                                   content |-> message.content,
                                   nostr_message |->
                                       format_nostr_message(message.author, message.content)])
                /\ outSnap' \in SubscriberList_get_all(subscribers)
                /\ outTodo' = outSnap'
                /\ outLog' = <<>>
                /\ outPc' = IF outSnap' = <<>> THEN "idle" ELSE "sending"
           ELSE UNCHANGED <<outMsg, outSnap, outTodo, outLog, outPc>>
    /\ UNCHANGED <<d2nQ, fwd, gwLeft, gwPending>>
    /\ InboundUnchanged

\* a loop that gives up at the first failed send
remaining_after_send_abort(todo, ok) == IF ok THEN Tail(todo) ELSE <<>>

\* the `for pubkey in subscribers` loop after one send returned ok or not:
\* either way it is logged and the loop goes on with the next pubkey
remaining_after_send(todo, ok) == Tail(todo)

\* an outbound task that ends at the first failed send
OutSend_stops(ok) ==
    /\ outPc = "sending"
    /\ outLog' = Append(outLog, [to |-> Head(outTodo),
                                 text |-> Unwrap(outMsg).nostr_message, ok |-> ok])
    /\ outTodo' = Tail(outTodo)
    /\ outPc' = IF ~ok THEN "stopped" ELSE IF outTodo' = <<>> THEN "idle" ELSE "sending"
    /\ UNCHANGED <<d2nQ, fwd, nostrQ, outMsg, outSnap, gwLeft, gwPending>>
    /\ InboundUnchanged

\* an outbound task that looks the registry up again after each send and
\* goes on with those of the remaining pubkeys that are still in it
OutSend_rereads(ok) ==
    /\ outPc = "sending"
    /\ outLog' = Append(outLog, [to |-> Head(outTodo),
                                 text |-> Unwrap(outMsg).nostr_message, ok |-> ok])
    /\ outTodo' = SelectSeq(Tail(outTodo), LAMBDA k : k \in subscribers)
    /\ outPc' = IF outTodo' = <<>> THEN "idle" ELSE "sending"
    /\ UNCHANGED <<d2nQ, fwd, nostrQ, outMsg, outSnap, gwLeft, gwPending>>
    /\ InboundUnchanged

\* the outbound sender task: get_chat and send_private_message for the next
\* pubkey of the snapshot
OutSend(ok) ==
    /\ outPc = "sending"
    /\ outLog' = Append(outLog, [to |-> Head(outTodo),
                                 text |-> Unwrap(outMsg).nostr_message, ok |-> ok])
    /\ outTodo' = remaining_after_send(outTodo, ok)
    /\ outPc' = IF outTodo' = <<>> THEN "idle" ELSE "sending"
    /\ UNCHANGED <<d2nQ, fwd, nostrQ, outMsg, outSnap, gwLeft, gwPending>>
    /\ InboundUnchanged

----------------------------------------------------------------------------
(* The relay pipeline *)

Next ==
    \/ \E ev \in PipeEvents : InDiscard(ev)
    \/ \E ev \in PipeEvents : InSubscribe(ev)
    \/ \E ev \in PipeEvents : InUnsubscribe(ev)
    \/ \E ev \in PipeEvents : InHelp(ev)
    \/ \E ev \in PipeEvents : InNotSubscribed(ev)
    \/ \E ev \in PipeEvents : InRelay(ev)
    \/ \E ok \in BOOLEAN : InReplySent(ok)
    \/ \E res \in PipeFetchResults : InFetchReturn(res)
    \/ InEnqueue
    \/ DiscordPost
    \/ \E msg \in GatewayMessages : GatewayIgnored(msg)
    \/ \E msg \in GatewayMessages : GatewayAccepted(msg)
    \/ ForwardRecv
    \/ ForwardSend
    \/ OutRecv
    \/ \E ok \in BOOLEAN : OutSend(ok)

Spec == Init /\ [][Next]_vars

----------------------------------------------------------------------------
(* The inbound direction alone: every kind of event, every answer of the   *)
(* transport, and a moving clock                                           *)

InitInbound ==
    /\ InitStores(NoFiles, <<>>)
    /\ InitPipeline
    /\ inLeft = MaxInbound
    /\ gwLeft = 0

NextInbound ==
    \/ \E ev \in InboundEvents : InDiscard(ev)
    \/ \E ev \in InboundEvents : InSubscribe(ev)
    \/ \E ev \in InboundEvents : InUnsubscribe(ev)
    \/ \E ev \in InboundEvents : InHelp(ev)
    \/ \E ev \in InboundEvents : InNotSubscribed(ev)
    \/ \E ev \in InboundEvents : InRelay(ev)
    \/ \E ok \in BOOLEAN : InReplySent(ok)
    \/ \E outcome \in FetchOutcomes : \E res \in TransportResults(outcome) :
          InFetchReturn(res)
    \/ InEnqueue
    \/ DiscordPost
    \/ Tick

SpecInbound == InitInbound /\ [][NextInbound]_vars

----------------------------------------------------------------------------
(* The registry on its own: SubscriberList's operations in any order *)

InitRegistry ==
    /\ \E c \in Configs : \E f \in InitialSubFiles : InitStores(c, f)
    /\ InitPipeline
    /\ inLeft = 0
    /\ gwLeft = 0

\* the operation just applied goes in front, with the set it was applied to;
\* of the one before it the call and its result are kept
Logged(op, pubkey, ret, vec) ==
    <<[op |-> op, arg |-> pubkey, ret |-> ret, vec |-> vec, before |-> subscribers]>>
        \o (IF regOps = <<>> THEN <<>>
            ELSE <<[op |-> regOps[1].op, arg |-> regOps[1].arg, ret |-> regOps[1].ret]>>)

RegistryFrame ==
    UNCHANGED <<config, now, cache, cacheFile, inPc, inTmp, cur, inLeft, n2dQ,
                posted, d2nQ, fwd, nostrQ, outPc, outMsg, outSnap, outTodo,
                outLog, gwLeft, fcall, probe,
                subLock, cacheLock, saveTodo, gwPending>>

RegAdd(pubkey) ==
    /\ \E r \in SubscriberList_add(config.subscribers_file, subscribers, subFile, pubkey) :
          /\ subscribers' = r.set
          /\ subFile' = r.file
          /\ regOps' = Logged("add", pubkey, r.ret, <<>>)
    /\ RegistryFrame

RegRemove(pubkey) ==
    /\ \E r \in SubscriberList_remove(config.subscribers_file, subscribers, subFile, pubkey) :
          /\ subscribers' = r.set
          /\ subFile' = r.file
          /\ regOps' = Logged("remove", pubkey, r.ret, <<>>)
    /\ RegistryFrame

RegContains(pubkey) ==
    /\ regOps' = Logged("contains", pubkey,
                        SubscriberList_contains(subscribers, pubkey), <<>>)
    /\ UNCHANGED <<subscribers, subFile>>
    /\ RegistryFrame

RegGetAll ==
    /\ \E v \in SubscriberList_get_all(subscribers) :
          regOps' = Logged("get_all", my_pubkey, TRUE, v)
    /\ UNCHANGED <<subscribers, subFile>>
    /\ RegistryFrame

NextRegistry ==
    \/ \E pubkey \in Identities : RegAdd(pubkey)
    \/ \E pubkey \in Identities : RegRemove(pubkey)
    \/ \E pubkey \in Identities : RegContains(pubkey)
    \/ RegGetAll

SpecRegistry == InitRegistry /\ [][NextRegistry]_vars

----------------------------------------------------------------------------
(* The cache on its own: fetch_metadata called for any identity at any time *)

\* a cache file left by an earlier run: one profile, refreshed a day ago
OldProfile ==
    UserMetadata_from_metadata(1,
        [name |-> Some(NameBob), display_name |-> None, picture |-> None,
         nip05 |-> None, about |-> None],
        StartTime - CACHE_LIFETIME)
InitialCacheFiles == {None, Some(HashMap_insert(EmptyCache, OldProfile))}

\* the identities fetch_metadata is called for, and the transport's answers
CacheKeys == {1, 2}
CacheFetchResults ==
    {r \in FetchResults : r.tag = "Found" => r.metadata.display_name = None}

\* METADATA_CACHE_FILE is set, SUBSCRIBERS_FILE is not
CacheFileOnly == [subscribers_file |-> FALSE, metadata_cache_file |-> TRUE]

InitCache ==
    /\ \E c \in {CacheFileOnly} : \E f \in InitialCacheFiles :
          /\ config = c
          /\ cacheFile = f
          /\ cache = MetadataCache_new(c.metadata_cache_file, f)
    /\ now = StartTime
    /\ subFile = <<>> /\ subscribers = {}
    /\ InitPipeline
    /\ inLeft = 0
    /\ gwLeft = 0

CacheFrame ==
    UNCHANGED <<config, subscribers, subFile, inPc, inTmp, cur, inLeft, n2dQ,
                posted, d2nQ, fwd, nostrQ, outPc, outMsg, outSnap, outTodo,
                outLog, gwLeft, regOps, probe,
                subLock, cacheLock, saveTodo, gwPending>>

\* a finished call: asked is whether the transport was asked, ret is
\* Ok(profile) as Some(profile) and Err as None.  The call is kept in full as
\* the last one, and in short in front of its identity's history, of which
\* the two latest calls are kept
Finished(pubkey, at, asked, tag, ret, c2) ==
    [fcall EXCEPT
        !.pend = None,
        !.last = Some([pubkey |-> pubkey, asked |-> asked, tag |-> tag, ret |-> ret,
                       entry_before |-> MetadataCache_get(cache, pubkey),
                       entry_after |-> MetadataCache_get(c2, pubkey),
                       others_kept |-> \A k \in KeyTexts \ {to_bech32(pubkey)} :
                                          c2[k] = cache[k]]),
        !.hist[pubkey] = <<[at |-> at, asked |-> asked, tag |-> tag]>>
                            \o SubSeq(@, 1, IF @ = <<>> THEN 0 ELSE 1)]

\* fetch_metadata is called and returns the cached profile without suspending
FetchCached(pubkey) ==
    /\ fcall.pend = None
    /\ fcall.n < MaxFetch
    /\ IsSome(fetch_metadata_cached(cache, pubkey, now))
    /\ fcall' = [Finished(pubkey, now, FALSE, "Cached",
                          fetch_metadata_cached(cache, pubkey, now), cache)
                    EXCEPT !.n = @ + 1]
    /\ UNCHANGED <<now, cache, cacheFile>>
    /\ CacheFrame

\* fetch_metadata is called, asks the transport and suspends
FetchAsk(pubkey) ==
    /\ fcall.pend = None
    /\ fcall.n < MaxFetch
    /\ ~IsSome(fetch_metadata_cached(cache, pubkey, now))
    /\ fcall' = [fcall EXCEPT !.n = @ + 1,
                              !.pend = Some([pubkey |-> pubkey, at |-> now])]
    /\ UNCHANGED <<now, cache, cacheFile>>
    /\ CacheFrame

\* the transport answers and fetch_metadata returns
FetchResume(res) ==
    /\ fcall.pend # None
    /\ LET call == Unwrap(fcall.pend)
       IN  \E r \in fetch_metadata_resume(config.metadata_cache_file, cache, cacheFile,
                                          call.pubkey, res, now) :
              /\ cache' = r.cache
              /\ cacheFile' = r.file
              /\ fcall' = Finished(call.pubkey, call.at, TRUE, res.tag, r.ret, r.cache)
    /\ UNCHANGED now
    /\ CacheFrame

NextCache ==
    \/ \E pubkey \in CacheKeys : FetchCached(pubkey)
    \/ \E pubkey \in CacheKeys : FetchAsk(pubkey)
    \/ \E outcome \in FetchOutcomes :
       \E res \in TransportResults(outcome) \cap CacheFetchResults : FetchResume(res)
    \/ Tick

SpecCache == InitCache /\ [][NextCache]_vars

----------------------------------------------------------------------------
(* get_best_name on its own: every profile from_metadata and new can build *)

\* the texts a profile field can hold: empty, whitespace only, a word
DisplayBob == <<"B","o","b">>
FieldTexts(word) == {None, Some(<<>>), Some(NameBlank), Some(word)}

\* UserMetadata values: pubkey is the bech32 text new and from_metadata put there
Profiles ==
    {[pubkey |-> to_bech32(pk), name |-> n, display_name |-> d, picture |-> None,
      nip05 |-> h, about |-> None, last_updated |-> 0] :
        pk \in PublicKeys, n \in FieldTexts(NameBob), d \in FieldTexts(DisplayBob),
        h \in FieldTexts(Nip05Bob)}

InitNames ==
    /\ InitStores(NoFiles, <<>>)
    /\ InitPipeline
    /\ inLeft = 0
    /\ gwLeft = 0

ProbeFrame ==
    UNCHANGED <<config, now, subscribers, subFile, cache, cacheFile, inPc, inTmp,
                cur, inLeft, n2dQ, posted, d2nQ, fwd, nostrQ, outPc, outMsg,
                outSnap, outTodo, outLog, gwLeft, regOps, fcall,
                subLock, cacheLock, saveTodo, gwPending>>

\* metadata.get_best_name()
BestName(md) ==
    /\ probe' = Some([fn |-> "get_best_name", arg |-> md, ret |-> get_best_name(md)])
    /\ ProbeFrame

NextNames == \E md \in Profiles : BestName(md)

SpecNames == InitNames /\ [][NextNames]_vars

----------------------------------------------------------------------------
(* SubscriberList::new on its own: any subscribers file, present or not *)

\* lines of a subscribers file: blank, whitespace, a bech32 key, a padded
\* bech32 key, a hex key, a broken bech32 key, a broken hex key
FileLines ==
    { <<>>, <<" ", " ">>, to_bech32(1), <<" ">> \o to_bech32(2) \o <<" ">>,
      to_hex(1), Npub \o <<"1", "x">>, <<"z", "z">> }

RECURSIVE LinesUpTo(_)
LinesUpTo(n) ==
    IF n = 0 THEN {<<>>}
    ELSE LET r == LinesUpTo(n - 1)
         IN  r \cup {Append(f, l) : f \in {g \in r : Len(g) = n - 1}, l \in FileLines}

\* before construction: the file as an earlier run or an editor left it
InitLoad ==
    /\ config \in Configs
    /\ subFile \in LinesUpTo(MaxLines)
    /\ subscribers = {}
    /\ now = StartTime
    /\ cacheFile = None
    /\ cache = MetadataCache_new(config.metadata_cache_file, cacheFile)
    /\ InitPipeline
    /\ inLeft = 0
    /\ gwLeft = 0

\* SubscriberList::new(config.subscribers_file)
LoadSubscribers(readable) ==
    /\ probe = None
    /\ subscribers' = SubscriberList_new(config.subscribers_file, readable, subFile)
    /\ probe' = Some([fn |-> "SubscriberList::new", arg |-> readable,
                      ret |-> subscribers'])
    /\ UNCHANGED <<config, now, subFile, cache, cacheFile, inPc, inTmp,
                   cur, inLeft, n2dQ, posted, d2nQ, fwd, nostrQ, outPc, outMsg,
                   outSnap, outTodo, outLog, gwLeft, regOps, fcall,
                subLock, cacheLock, saveTodo, gwPending>>

NextLoad == \E readable \in BOOLEAN : LoadSubscribers(readable)

SpecLoad == InitLoad /\ [][NextLoad]_vars

----------------------------------------------------------------------------
(* The registry and its file: add and remove under every behaviour of the  *)
(* file system                                                             *)

\* SUBSCRIBERS_FILE is set (and with it the cache file's default)
SubscribersFileSet == [subscribers_file |-> TRUE, metadata_cache_file |-> TRUE]

\* the file an earlier run left, or one edited by hand: a hex key, a broken line
PersistFiles == InitialSubFiles \cup {<<to_hex(2), <<"z", "z">>>>}

InitPersist ==
    /\ \E f \in PersistFiles : InitStores(SubscribersFileSet, f)
    /\ InitPipeline
    /\ inLeft = 0
    /\ gwLeft = 0

\* the operation just applied, with the set and the file it was applied to,
\* what the file system did to its write ("none": it wrote nothing), and
\* whether every write up to and including its own succeeded
Persisted(op, pubkey, ret, io) ==
    <<[op |-> op, arg |-> pubkey, ret |-> ret,
       io |-> IF ret THEN io ELSE "none",
       before |-> subscribers, file_before |-> subFile,
       clean |-> (regOps = <<>> \/ regOps[1].clean) /\ (ret => io = "ok")]>>

PersistAdd(pubkey, io) ==
    /\ \E r \in SubscriberList_add_io(config.subscribers_file, subscribers, subFile,
                                      pubkey, io) :
          /\ subscribers' = r.set
          /\ subFile' = r.file
          /\ regOps' = Persisted("add", pubkey, r.ret, io)
    /\ RegistryFrame

PersistRemove(pubkey, io) ==
    /\ \E r \in SubscriberList_remove_io(config.subscribers_file, subscribers, subFile,
                                         pubkey, io) :
          /\ subscribers' = r.set
          /\ subFile' = r.file
          /\ regOps' = Persisted("remove", pubkey, r.ret, io)
    /\ RegistryFrame

NextPersist ==
    \/ \E pubkey \in Identities : \E io \in IoOutcomes : PersistAdd(pubkey, io)
    \/ \E pubkey \in Identities : \E io \in IoOutcomes : PersistRemove(pubkey, io)

SpecPersist == InitPersist /\ [][NextPersist]_vars

----------------------------------------------------------------------------
(* The command handler over a registry with a file: "!subscribe",          *)
(* "!unsubscribe" and plain text, under every behaviour of the file system *)

\* direct messages that subscribe, unsubscribe, or say something
CommandEvents ==
    {ev \in PipeEvents :
        /\ ev.kind = KindPrivateDirectMessage
        /\ trim(ev.content) \in {CmdSubscribe, CmdUnsubscribe, TextHey}}

\* the transport does not answer the profile request
CommandFetchResults == {[tag |-> "Error"]}

InitCommands ==
    /\ \E f \in InitialSubFiles : InitStores(SubscribersFileSet, f)
    /\ InitPipeline
    /\ inLeft = MaxCommands
    /\ gwLeft = 0

NextCommands ==
    \/ \E ev \in CommandEvents : InSubscribe(ev)
    \/ \E ev \in CommandEvents : InUnsubscribe(ev)
    \/ \E ev \in CommandEvents : InNotSubscribed(ev)
    \/ \E ev \in CommandEvents : InRelay(ev)
    \/ \E ok \in BOOLEAN : InReplySent(ok)
    \/ \E res \in CommandFetchResults : InFetchReturn(res)
    \/ InEnqueue

SpecCommands == InitCommands /\ [][NextCommands]_vars

----------------------------------------------------------------------------
(* The two Mutexes: the inbound and the outbound task with each critical   *)
(* section that spans file I/O taken apart (a section that only reads or   *)
(* updates the map is one step: the lock is free before and after it)      *)

InitLocks ==
    /\ \E c \in {NoFiles, SubscribersFileSet} : InitStores(c, <<>>)
    /\ InitPipeline
    /\ inLeft = MaxLockEvents
    /\ gwLeft = MaxLockChat

LocksInboundFrame ==
    /\ UNCHANGED <<config, now, n2dQ, posted, regOps, fcall, probe>>
    /\ OutboundUnchanged

\* "!subscribe": SubscriberList::add up to its call of save_to_file
LkSubscribe(ev) ==
    /\ InboundIdle
    /\ Classify(ev, subscribers) = "Subscribe"
    /\ subLock = "free"
    /\ LET r == HashSet_insert(subscribers, ev.sender)
       IN  /\ subscribers' = r.set
           /\ inTmp' = IF r.ret THEN ReplySubscribed ELSE ReplyAlreadySubscribed
           /\ inPc' = IF r.ret THEN "save" ELSE "reply"
    /\ cur' = Evaluation(ev, "CommandHandled")
    /\ inLeft' = inLeft - 1
    /\ UNCHANGED <<subFile, cache, cacheFile, subLock, cacheLock, saveTodo>>
    /\ LocksInboundFrame

\* "!unsubscribe": SubscriberList::remove up to its call of save_to_file
LkUnsubscribe(ev) ==
    /\ InboundIdle
    /\ Classify(ev, subscribers) = "Unsubscribe"
    /\ subLock = "free"
    /\ LET r == HashSet_remove(subscribers, ev.sender)
       IN  /\ subscribers' = r.set
           /\ inTmp' = IF r.ret THEN ReplyUnsubscribed ELSE ReplyNotCurrentlySubscribed
           /\ inPc' = IF r.ret THEN "save" ELSE "reply"
    /\ cur' = Evaluation(ev, "CommandHandled")
    /\ inLeft' = inLeft - 1
    /\ UNCHANGED <<subFile, cache, cacheFile, subLock, cacheLock, saveTodo>>
    /\ LocksInboundFrame

\* SubscriberList::save_to_file: with a path, self.subscribers.lock()
LkSaveEnter ==
    /\ inPc = "save"
    /\ IF config.subscribers_file
       THEN /\ subLock = "free"
            /\ subLock' = "inbound"
            /\ inPc' = "save_create"
       ELSE /\ inPc' = "reply"
            /\ UNCHANGED subLock
    /\ UNCHANGED <<subscribers, subFile, cache, cacheFile, inTmp, cur, inLeft,
                   cacheLock, saveTodo>>
    /\ LocksInboundFrame

\* SubscriberList::save_to_file: fs::File::create(path), the guard in scope
LkSaveCreate(ok) ==
    /\ inPc = "save_create"
    /\ IF ok
       THEN /\ subFile' = <<>>
            /\ saveTodo' \in SeqsOf(subscribers)
            /\ inPc' = "save_write"
       ELSE /\ inPc' = "save_unlock"
            /\ UNCHANGED <<subFile, saveTodo>>
    /\ UNCHANGED <<subscribers, cache, cacheFile, inTmp, cur, inLeft, subLock, cacheLock>>
    /\ LocksInboundFrame

\* SubscriberList::save_to_file: writeln!(file, bech32) for the next pubkey
LkSaveWriteln(ok) ==
    /\ inPc = "save_write"
    /\ saveTodo # <<>>
    /\ subFile' = IF ok THEN Append(subFile, to_bech32(Head(saveTodo))) ELSE subFile
    /\ saveTodo' = Tail(saveTodo)
    /\ UNCHANGED <<subscribers, cache, cacheFile, inPc, inTmp, cur, inLeft,
                   subLock, cacheLock>>
    /\ LocksInboundFrame

\* SubscriberList::save_to_file returns: the guard is dropped
LkSaveUnlock ==
    /\ \/ inPc = "save_unlock"
       \/ (inPc = "save_write" /\ saveTodo = <<>>)
    /\ subLock' = "free"
    /\ inPc' = "reply"
    /\ UNCHANGED <<subscribers, subFile, cache, cacheFile, inTmp, cur, inLeft,
                   cacheLock, saveTodo>>
    /\ LocksInboundFrame

\* contains(), then the "not subscribed" notice
LkNotSubscribed(ev) == subLock = "free" /\ InNotSubscribed(ev)

\* contains(), then fetch_metadata up to its await (its get() locks the cache)
LkRelay(ev) == subLock = "free" /\ cacheLock = "free" /\ InRelay(ev)

\* client.fetch_metadata(..).await returns; fetch_metadata's put() inserts
\* under the cache lock and releases it
LkFetchReturn(res) ==
    /\ inPc = "fetch"
    /\ LET b == fetch_metadata_built(cur.ev.sender, res, now)
       IN  /\ inTmp' = nostr_bridge_message(cur.text, cur.ev.sender,
                           metadata_or_default(b, cur.ev.sender))
           /\ IF IsSome(b)
              THEN /\ cacheLock = "free"
                   /\ cache' = HashMap_insert(cache, Unwrap(b))
                   /\ inPc' = IF config.metadata_cache_file THEN "cache_save"
                              ELSE "enqueue"
              ELSE /\ inPc' = "enqueue"
                   /\ UNCHANGED cache
    /\ cur' = [cur EXCEPT !.fetched = Append(@, res.tag)]
    /\ UNCHANGED <<subscribers, subFile, cacheFile, inLeft, subLock, cacheLock, saveTodo>>
    /\ LocksInboundFrame

\* MetadataCache::save_to_file: self.cache.lock() for serde_json::to_string
LkCacheSnapshot ==
    /\ inPc = "cache_save"
    /\ cacheLock = "free"
    /\ cacheLock' = "inbound"
    /\ inPc' = "cache_serialize"
    /\ UNCHANGED <<subscribers, subFile, cache, cacheFile, inTmp, cur, inLeft,
                   subLock, saveTodo>>
    /\ LocksInboundFrame

\* MetadataCache::save_to_file: the block ends with the json, the guard is dropped
LkCacheSerialized ==
    /\ inPc = "cache_serialize"
    /\ cacheLock' = "free"
    /\ inPc' = "cache_write"
    /\ UNCHANGED <<subscribers, subFile, cache, cacheFile, inTmp, cur, inLeft,
                   subLock, saveTodo>>
    /\ LocksInboundFrame

\* MetadataCache::save_to_file: fs::write(path, json); nothing else changes
\* the map in between, so the json is the map as it is
LkCacheWrite ==
    /\ inPc = "cache_write"
    /\ cacheFile' \in MetadataCache_save_to_file(TRUE, cache, cacheFile)
    /\ inPc' = "enqueue"
    /\ UNCHANGED <<subscribers, subFile, cache, inTmp, cur, inLeft,
                   subLock, cacheLock, saveTodo>>
    /\ LocksInboundFrame

\* the outbound task's get_all() has to take the registry's lock
LkOutRecv == subLock = "free" /\ OutRecv

NextLocks ==
    \/ \E ev \in CommandEvents : LkSubscribe(ev)
    \/ \E ev \in CommandEvents : LkUnsubscribe(ev)
    \/ LkSaveEnter
    \/ \E ok \in BOOLEAN : LkSaveCreate(ok)
    \/ \E ok \in BOOLEAN : LkSaveWriteln(ok)
    \/ LkSaveUnlock
    \/ \E ev \in CommandEvents : LkNotSubscribed(ev)
    \/ \E ev \in CommandEvents : LkRelay(ev)
    \/ \E ok \in BOOLEAN : InReplySent(ok)
    \/ \E res \in PipeFetchResults : LkFetchReturn(res)
    \/ LkCacheSnapshot
    \/ LkCacheSerialized
    \/ LkCacheWrite
    \/ InEnqueue
    \/ \E msg \in GatewayMessages : GatewayAccepted(msg)
    \/ ForwardRecv
    \/ ForwardSend
    \/ LkOutRecv
    \/ \E ok \in BOOLEAN : OutSend(ok)

SpecLocks == InitLocks /\ [][NextLocks]_vars

----------------------------------------------------------------------------
(* The three bounded channels when one of them is about to be full: the     *)
(* gateway's handlers, the forwarding task and the inbound task as producers *)

\* s without its i-th element
RemoveAt(s, i) == SubSeq(s, 1, i - 1) \o SubSeq(s, i + 1, Len(s))

\* Handler::message up to its send: one of the early returns, or the
\* BridgeMessage is built and the handler holds it
HandlerRuns(msg) ==
    /\ gwLeft > 0
    /\ gwLeft' = gwLeft - 1
    /\ gwPending' = IF handler_accepts(msg)
                    THEN Append(gwPending, discord_bridge_message(msg))
                    ELSE gwPending
    /\ UNCHANGED <<d2nQ, fwd, nostrQ, outPc, outMsg, outSnap, outTodo, outLog>>
    /\ UNCHANGED <<config, now, subscribers, subFile, cache, cacheFile, inPc, inTmp,
                   cur, inLeft, n2dQ, posted, regOps, fcall, subLock, cacheLock,
                   saveTodo>>

HandlerMessage(msg) == HandlerRuns(msg) /\ UNCHANGED probe

\* the same, with the event kept for inspection
GatewayEvent(msg) ==
    /\ HandlerRuns(msg)
    /\ probe' = Some([fn |-> "Handler::message", arg |-> msg,
                      ret |-> Len(gwPending') - Len(gwPending)])

\* a handler that uses try_send: a full channel loses the message
HandlerSend_try_send(i) ==
    /\ i \in DOMAIN gwPending
    /\ d2nQ' = IF Len(d2nQ) < CHANNEL_CAPACITY THEN Append(d2nQ, gwPending[i])
               ELSE d2nQ
    /\ gwPending' = RemoveAt(gwPending, i)
    /\ UNCHANGED <<fwd, nostrQ, outPc, outMsg, outSnap, outTodo, outLog, gwLeft>>
    /\ InboundUnchanged

\* Handler::message: message_sender.send(bridge_message).await of one of the
\* running handlers completes once the channel has room
HandlerSend(i) ==
    /\ i \in DOMAIN gwPending
    /\ Len(d2nQ) < CHANNEL_CAPACITY
    /\ d2nQ' = Append(d2nQ, gwPending[i])
    /\ gwPending' = RemoveAt(gwPending, i)
    /\ UNCHANGED <<fwd, nostrQ, outPc, outMsg, outSnap, outTodo, outLog, gwLeft>>
    /\ InboundUnchanged

QueueNames == {"discord_to_nostr", "nostr_sender", "nostr_to_discord"}

\* n times the message m, queued while the consumer did not run
Backlog(n, m) == [i \in 1..n |-> m]

ChatBacklogMessage ==
    discord_bridge_message([channel_id |-> ConfiguredChannel, bot |-> FALSE,
                            kind |-> "Regular", author |-> AuthorAlice,
                            content |-> TextHi])

RelayBacklogMessage == nostr_bridge_message(TextHey, 1, UserMetadata_new(1))

\* gateway events over a backlog: one text, any channel, author and kind
QueueGatewayMessages == {msg \in GatewayMessages : msg.content = TextHi}

\* plain text of the subscriber
QueueEvents ==
    {ev \in CommandEvents : ev.sender = 1 /\ trim(ev.content) = TextHey}

\* one of the channels has one free slot left, and the traffic that follows
\* is on that channel's side of the bridge: chat with nobody subscribed, or
\* plain text of the one subscriber
InitQueues ==
    /\ InitTasks
    /\ \E full \in QueueNames :
        /\ InitStores(SubscribersFileSet,
                      IF full = "nostr_to_discord" THEN <<to_bech32(1)>> ELSE <<>>)
        /\ d2nQ = IF full = "discord_to_nostr"
                  THEN Backlog(CHANNEL_CAPACITY - 1, ChatBacklogMessage) ELSE <<>>
        /\ nostrQ = IF full = "nostr_sender"
                    THEN Backlog(CHANNEL_CAPACITY - 1, ChatBacklogMessage) ELSE <<>>
        /\ n2dQ = IF full = "nostr_to_discord"
                  THEN Backlog(CHANNEL_CAPACITY - 1, RelayBacklogMessage) ELSE <<>>
        /\ gwLeft = IF full = "nostr_to_discord" THEN 0 ELSE MaxQueueChat
        /\ inLeft = IF full = "nostr_to_discord" THEN MaxQueueInbound ELSE 0

\* (with nobody subscribed the outbound task's `for` loop has no iteration)
NextQueues ==
    \/ \E msg \in QueueGatewayMessages : HandlerMessage(msg)
    \/ \E i \in 1..MaxQueueChat : HandlerSend(i)
    \/ ForwardRecv
    \/ ForwardSend
    \/ OutRecv
    \/ \E ev \in QueueEvents : InRelay(ev)
    \/ \E res \in CommandFetchResults : InFetchReturn(res)
    \/ InEnqueue
    \/ DiscordPost

SpecQueues == InitQueues /\ [][NextQueues]_vars

----------------------------------------------------------------------------
(* One direction at a time with two subscribers, to follow the order of the *)
(* messages from the channel they enter to the sends and posts they cause   *)

\* plain text of either subscriber
OrderEvents == {ev \in CommandEvents : trim(ev.content) = TextHey}

\* gateway events the handler accepts, of two texts
OrderGatewayMessages == {msg \in GatewayMessages : handler_accepts(msg)}

InitOrder ==
    /\ InitStores(SubscribersFileSet, <<to_bech32(1), to_bech32(2)>>)
    /\ InitPipeline
    /\ \E direction \in {"discord_to_nostr", "nostr_to_discord"} :
        /\ gwLeft = IF direction = "discord_to_nostr" THEN MaxOrderChat ELSE 0
        /\ inLeft = IF direction = "nostr_to_discord" THEN MaxOrderInbound ELSE 0

NextOrder ==
    \/ \E msg \in OrderGatewayMessages : HandlerMessage(msg)
    \/ \E i \in 1..MaxOrderChat : HandlerSend(i)
    \/ ForwardRecv
    \/ ForwardSend
    \/ OutRecv
    \/ \E ok \in BOOLEAN : OutSend(ok)
    \/ \E ev \in OrderEvents : InRelay(ev)
    \/ \E res \in CommandFetchResults : InFetchReturn(res)
    \/ InEnqueue
    \/ DiscordPost

SpecOrder == InitOrder /\ [][NextOrder]_vars

----------------------------------------------------------------------------
(* The gateway handler under events of every channel, author and kind, with *)
(* the outbound direction behind it and one subscriber                      *)

InitGateway ==
    /\ InitStores(SubscribersFileSet, <<to_bech32(1)>>)
    /\ InitPipeline
    /\ gwLeft = MaxGatewayEvents
    /\ inLeft = 0

NextGateway ==
    \/ \E msg \in GatewayMessages : GatewayEvent(msg)
    \/ \E i \in 1..MaxGatewayEvents : HandlerSend(i)
    \/ ForwardRecv
    \/ ForwardSend
    \/ OutRecv
    \/ \E ok \in BOOLEAN : OutSend(ok)

SpecGateway == InitGateway /\ [][NextGateway]_vars

----------------------------------------------------------------------------
(* The inbound task under texts that are commands, padded commands, and     *)
(* near misses: another case, more words, a command inside a sentence       *)

RecognizeTexts ==
    { CmdSubscribe,
      <<" ", "\n">> \o CmdSubscribe \o <<" ">>,
      <<"\n">> \o CmdUnsubscribe,
      CmdHelp \o <<" ", " ">>,
      <<"!","S","u","b","s","c","r","i","b","e">>,
      <<"!","H","E","L","P">>,
      CmdSubscribe \o <<" ","n","o","w">>,
      CmdUnsubscribe \o <<"!">>,
      <<"s","a","y"," ">> \o CmdSubscribe,
      <<"!","h","e","l","p","\n","m","e">> }

RecognizeEvents ==
    [pubkey : {EphemeralKey}, decrypt_ok : {TRUE}, sender : {1, 2},
     kind : {KindPrivateDirectMessage}, content : RecognizeTexts]

InitRecognize ==
    /\ \E f \in InitialSubFiles : InitStores(SubscribersFileSet, f)
    /\ InitPipeline
    /\ inLeft = MaxRecognize
    /\ gwLeft = 0

NextRecognize ==
    \/ \E ev \in RecognizeEvents : InSubscribe(ev)
    \/ \E ev \in RecognizeEvents : InUnsubscribe(ev)
    \/ \E ev \in RecognizeEvents : InHelp(ev)
    \/ \E ev \in RecognizeEvents : InNotSubscribed(ev)
    \/ \E ev \in RecognizeEvents : InRelay(ev)
    \/ \E ok \in BOOLEAN : InReplySent(ok)
    \/ \E res \in CommandFetchResults : InFetchReturn(res)
    \/ InEnqueue

SpecRecognize == InitRecognize /\ [][NextRecognize]_vars

----------------------------------------------------------------------------
(* The outbound direction under chat messages whose content is the text of  *)
(* a command, with two subscribers                                          *)

ChatCommandMessages ==
    [channel_id : {ConfiguredChannel}, bot : {FALSE}, kind : {"Regular"},
     author : {AuthorAlice}, content : Commands \cup {TextHi}]

InitChatCommands ==
    /\ InitStores(SubscribersFileSet, <<to_bech32(1), to_bech32(2)>>)
    /\ InitPipeline
    /\ gwLeft = MaxChatCommands
    /\ inLeft = 0

NextChatCommands ==
    \/ \E msg \in ChatCommandMessages : HandlerMessage(msg)
    \/ \E i \in 1..MaxChatCommands : HandlerSend(i)
    \/ ForwardRecv
    \/ ForwardSend
    \/ OutRecv
    \/ \E ok \in BOOLEAN : OutSend(ok)

SpecChatCommands == InitChatCommands /\ [][NextChatCommands]_vars

----------------------------------------------------------------------------
(* MetadataCache::put and get on their own, with a cache file, under every  *)
(* outcome of the write                                                     *)

\* the profiles fetch_metadata builds and puts
PutProfiles ==
    {UserMetadata_from_metadata(k, m, StartTime) : k \in CacheKeys, m \in FetchedMetadata}
        \cup {UserMetadata_new(k) : k \in CacheKeys}

InitPuts ==
    /\ \E f \in InitialCacheFiles :
          /\ config = CacheFileOnly
          /\ cacheFile = f
          /\ cache = MetadataCache_new(config.metadata_cache_file, f)
    /\ now = StartTime
    /\ subFile = <<>> /\ subscribers = {}
    /\ InitPipeline
    /\ inLeft = 0
    /\ gwLeft = 0

PutsFrame ==
    UNCHANGED <<config, now, subscribers, subFile, inPc, inTmp, cur, inLeft, n2dQ,
                posted, d2nQ, fwd, nostrQ, outPc, outMsg, outSnap, outTodo,
                outLog, gwLeft, regOps, subLock, cacheLock, saveTodo, gwPending>>

\* MetadataCache::put(md), its write ending as io says
CachePut(md, io) ==
    /\ fcall.n < MaxPuts
    /\ cache' = HashMap_insert(cache, md)
    /\ cacheFile' = MetadataCache_save_to_file_io(config.metadata_cache_file,
                                                  cache', cacheFile, io)
    /\ probe' = Some([fn |-> "put", arg |-> md, io |-> io, before |-> cache])
    /\ fcall' = [fcall EXCEPT !.n = @ + 1]
    /\ PutsFrame

\* MetadataCache::get(pubkey)
CacheGet(pubkey) ==
    /\ fcall.n < MaxPuts
    /\ probe' = Some([fn |-> "get", arg |-> pubkey, io |-> "ok", before |-> cache,
                      ret |-> MetadataCache_get(cache, pubkey)])
    /\ fcall' = [fcall EXCEPT !.n = @ + 1]
    /\ UNCHANGED <<cache, cacheFile>>
    /\ PutsFrame

NextPuts ==
    \/ \E md \in PutProfiles : \E io \in CacheIoOutcomes : CachePut(md, io)
    \/ \E pubkey \in CacheKeys : CacheGet(pubkey)

SpecPuts == InitPuts /\ [][NextPuts]_vars

----------------------------------------------------------------------------
(* The outbound direction under fair scheduling, with commands arriving     *)
(* that take the registry's lock and write the subscribers file meanwhile   *)

\* "!subscribe" and "!unsubscribe" of either identity
LiveEvents == {ev \in CommandEvents : trim(ev.content) \in {CmdSubscribe, CmdUnsubscribe}}

\* chat messages the handler accepts
LiveGatewayMessages ==
    {msg \in GatewayMessages : handler_accepts(msg) /\ msg.content = TextHi}

InitLive ==
    /\ InitStores(SubscribersFileSet, <<to_bech32(1)>>)
    /\ InitPipeline
    /\ gwLeft = MaxLiveChat
    /\ inLeft = MaxLiveInbound

NextLive ==
    \/ \E msg \in LiveGatewayMessages : HandlerMessage(msg)
    \/ \E i \in 1..MaxLiveChat : HandlerSend(i)
    \/ ForwardRecv
    \/ ForwardSend
    \/ LkOutRecv
    \/ \E ok \in BOOLEAN : OutSend(ok)
    \/ \E ev \in LiveEvents : LkSubscribe(ev)
    \/ \E ev \in LiveEvents : LkUnsubscribe(ev)
    \/ LkSaveEnter
    \/ \E ok \in BOOLEAN : LkSaveCreate(ok)
    \/ \E ok \in BOOLEAN : LkSaveWriteln(ok)
    \/ LkSaveUnlock
    \/ \E ok \in BOOLEAN : InReplySent(ok)

\* the runtime schedules every task that can run: a handler, the forwarding
\* task and the outbound task take their next step, a private send returns,
\* and the synchronous file calls made under the registry's lock return
LiveFairness ==
    /\ WF_vars(\E i \in 1..MaxLiveChat : HandlerSend(i))
    /\ WF_vars(ForwardRecv)
    /\ WF_vars(ForwardSend)
    /\ WF_vars(LkOutRecv)
    /\ WF_vars(\E ok \in BOOLEAN : OutSend(ok))
    /\ WF_vars(\E ok \in BOOLEAN : LkSaveCreate(ok))
    /\ WF_vars(\E ok \in BOOLEAN : LkSaveWriteln(ok))
    /\ WF_vars(LkSaveUnlock)

SpecLive == InitLive /\ [][NextLive]_vars /\ LiveFairness

----------------------------------------------------------------------------
(* Properties of the inbound direction (SpecInbound) *)

\* the event under evaluation is a private direct message that reached the
\* command handling: not our own event, decrypted, of the direct-message kind
IsDirectMessage ==
    /\ cur.outcome # "None"
    /\ cur.ev.pubkey # my_pubkey
    /\ cur.ev.decrypt_ok
    /\ cur.ev.kind = KindPrivateDirectMessage

\* C1: a direct message whose trimmed text is no command, from a sender the
\* registry did not contain when it was evaluated, gets exactly one "not
\* subscribed" notice sent to its sender (pending, then sent), nothing is
\* enqueued toward Discord, the transport is not asked for metadata, and the
\* registry is what it was.
C1_NotSubscribedNotice ==
    (IsDirectMessage /\ trim(cur.ev.content) \notin Commands
        /\ cur.ev.sender \notin cur.before)
    => /\ cur.enq = <<>>
       /\ cur.fetched = <<>>
       /\ subscribers = cur.before
       /\ inPc \in {"reply", "idle"}
       /\ inPc = "reply" => (cur.replies = <<>> /\ inTmp = ReplyNotSubscribed)
       /\ inPc = "idle" =>
             /\ Len(cur.replies) = 1
             /\ cur.replies[1].to = cur.ev.sender
             /\ cur.replies[1].text = ReplyNotSubscribed

\* a non-subscriber's "hey" was answered with the notice
C1_Witness ==
    /\ IsDirectMessage /\ inPc = "idle"
    /\ trim(cur.ev.content) = TextHey
    /\ cur.ev.sender \notin cur.before
    /\ Len(cur.replies) = 1

\* the relay message built for the event under evaluation
IsRelayOf(m) ==
    /\ m.tag = "Nostr"
    /\ m.content = trim(cur.ev.content)
    /\ m.metadata.pubkey = to_bech32(cur.ev.sender)
    /\ m.metadata.username # <<>>

\* C2: a direct message whose trimmed text is no command, from a sender the
\* registry contained, is enqueued toward Discord exactly once, as a Nostr
\* relay message with the trimmed text, the sender's bech32 text and a
\* non-empty username, whatever the transport answered to the metadata
\* request (at most one request is made, and no answer drops the message);
\* no private reply is sent.
C2_SubscriberRelayed ==
    (IsDirectMessage /\ trim(cur.ev.content) \notin Commands
        /\ cur.ev.sender \in cur.before)
    => /\ cur.replies = <<>>
       /\ subscribers = cur.before
       /\ inPc \in {"fetch", "enqueue", "idle"}
       /\ inPc = "fetch" => (cur.enq = <<>> /\ cur.fetched = <<>>)
       /\ inPc = "enqueue" =>
             (cur.enq = <<>> /\ Len(cur.fetched) <= 1 /\ IsRelayOf(inTmp))
       /\ inPc = "idle" =>
             (Len(cur.enq) = 1 /\ Len(cur.fetched) <= 1 /\ IsRelayOf(cur.enq[1]))

\* a subscriber's "hey" was relayed although the metadata request failed
C2_Witness ==
    /\ IsDirectMessage /\ inPc = "idle"
    /\ cur.ev.sender \in cur.before
    /\ cur.fetched = <<"Error">>
    /\ Len(cur.enq) = 1
    /\ cur.enq[1].content = TextHey

\* C3: a direct message whose trimmed text is "!subscribe", "!unsubscribe" or
\* "!help" is never enqueued toward Discord, never asks for metadata and
\* never gets the "not subscribed" notice, whether its sender was in the
\* registry or not; exactly one reply is sent; "!help" leaves the registry
\* as it was.
C3_CommandsTerminal ==
    (IsDirectMessage /\ trim(cur.ev.content) \in Commands)
    => /\ cur.enq = <<>>
       /\ cur.fetched = <<>>
       /\ inPc \in {"reply", "idle"}
       /\ inPc = "reply" => (cur.replies = <<>> /\ inTmp # ReplyNotSubscribed)
       /\ inPc = "idle" =>
             (Len(cur.replies) = 1 /\ cur.replies[1].text # ReplyNotSubscribed)
       /\ trim(cur.ev.content) = CmdHelp => subscribers = cur.before

\* a non-subscriber's "!unsubscribe" was answered
C3_Witness ==
    /\ IsDirectMessage /\ inPc = "idle"
    /\ trim(cur.ev.content) = CmdUnsubscribe
    /\ cur.ev.sender \notin cur.before
    /\ Len(cur.replies) = 1

\* the event under evaluation is a "!subscribe" direct message
IsSubscribe == IsDirectMessage /\ trim(cur.ev.content) = CmdSubscribe

\* the reply to the command under evaluation, sent or still pending
CommandReply == IF inPc = "reply" THEN inTmp ELSE cur.replies[1].text

C4_ReplyBySetBefore ==
    IsSubscribe
    => /\ subscribers = cur.before \cup {cur.ev.sender}
       /\ CommandReply = (IF cur.ev.sender \notin cur.before
                          THEN ReplySubscribed ELSE ReplyAlreadySubscribed)

\* a step in which the inbound task takes "!subscribe" from the sender whose
\* "!subscribe" it answered last
C4_SecondInARow ==
    /\ IsSubscribe /\ inPc = "idle"
    /\ inLeft' = inLeft - 1
    /\ IsSubscribe'
    /\ cur'.ev.sender = cur.ev.sender

\* C4: the reply to "!subscribe" is "now subscribed" iff the registry did not
\* contain the sender just before the command, "already subscribed"
\* otherwise, and afterwards the registry contains the sender (as a set, once)
\* and is otherwise what it was; so a second "!subscribe" right after the
\* first is answered "already subscribed" and changes nothing.
C4_SubscribeTwice ==
    /\ []C4_ReplyBySetBefore
    /\ [][C4_SecondInARow =>
            (inTmp' = ReplyAlreadySubscribed /\ subscribers' = subscribers)]_vars

\* "!subscribe" from a sender the registry already contained was answered
\* "already subscribed" (the registry starts empty: the sender had subscribed before)
C4_Witness ==
    /\ IsSubscribe /\ inPc = "idle"
    /\ cur.ev.sender \in cur.before
    /\ Len(cur.replies) = 1
    /\ cur.replies[1].text = ReplyAlreadySubscribed

----------------------------------------------------------------------------
(* Properties of the pipeline (Spec) *)

\* the event under evaluation is an "!unsubscribe" direct message
IsUnsubscribe == IsDirectMessage /\ trim(cur.ev.content) = CmdUnsubscribe

C5_RemovedAndReplied ==
    IsUnsubscribe
    => /\ cur.ev.sender \notin subscribers
       /\ subscribers = cur.before \ {cur.ev.sender}
       /\ CommandReply = (IF cur.ev.sender \in cur.before
                          THEN ReplyUnsubscribed ELSE ReplyNotCurrentlySubscribed)

\* the outbound task takes a message off its channel and snapshots the registry
TakesSnapshot == outPc = "idle" /\ Len(nostrQ') < Len(nostrQ)

\* every attempt made or still to make for the message being fanned out is to
\* a pubkey of its snapshot
AttemptsWithinSnapshot ==
    {outLog[k].to : k \in 1..Len(outLog)} \cup Range(outTodo) \subseteq Range(outSnap)

\* C5: "!unsubscribe" from s leaves the registry without s: it removes s and
\* replies "unsubscribed" iff the registry contained s just before, otherwise
\* it replies "not currently subscribed" and the registry is what it was.  A
\* snapshot the outbound task takes while that is the latest inbound event
\* does not hold s, a snapshot never holds a pubkey the registry does not,
\* and send attempts go to pubkeys of the snapshot only: no attempt to s for
\* a chat message snapshotted after the removal.
C5_Unsubscribe ==
    /\ []C5_RemovedAndReplied
    /\ []AttemptsWithinSnapshot
    /\ [][TakesSnapshot =>
            /\ Range(outSnap') \subseteq subscribers
            /\ IsUnsubscribe => cur.ev.sender \notin Range(outSnap')]_vars

\* sender 1 unsubscribed and was removed, and the chat message fanned out
\* since (the registry held 1 before, so no earlier snapshot was {2} alone)
\* went to 2 only
C5_Witness ==
    /\ IsUnsubscribe /\ inPc = "idle"
    /\ cur.ev.sender = 1 /\ cur.before = {1, 2}
    /\ cur.replies[1].text = ReplyUnsubscribed
    /\ outPc = "idle" /\ outMsg # None
    /\ Len(outLog) = 1 /\ outLog[1].to = 2

\* C6: for the chat message being fanned out, the attempts made so far
\* followed by the recipients still to attempt are exactly the Vec that
\* get_all returned for it, a duplicate-free listing of the registry at that
\* moment: one attempt per pubkey of the snapshot, none to anyone else, in
\* the snapshot's order, whatever the results of the sends; when the task is
\* idle again every pubkey of the snapshot has had its one attempt.
C6_OneAttemptEach ==
    outMsg # None
    => /\ [k \in 1..Len(outLog) |-> outLog[k].to] \o outTodo = outSnap
       /\ Cardinality(Range(outSnap)) = Len(outSnap)
       /\ outPc = "idle" <=> outTodo = <<>>

\* two subscribers, the first send failed, the second was attempted all the same
C6_Witness ==
    /\ outMsg # None /\ outPc = "idle"
    /\ Len(outLog) = 2
    /\ ~outLog[1].ok
    /\ outLog[2].to # outLog[1].to

\* C7 as the specification states it: the text of every private message sent for a chat message
\* with author a and content c is "[a]: c".
C7_AsClaimed ==
    \A k \in 1..Len(outLog) :
        outLog[k].text =
            <<"[">> \o Unwrap(outMsg).author \o <<"]", ":", " ">> \o Unwrap(outMsg).content

\* C7: the text of every private message sent for a chat message with author
\* a and content c is "[Discord] a: c", the same for every recipient (author
\* "alice", content "hi": "[Discord] alice: hi").
C7_DiscordPrefixed ==
    \A k \in 1..Len(outLog) :
        /\ outLog[k].text =
              <<"[","D","i","s","c","o","r","d","]"," ">> \o Unwrap(outMsg).author
                  \o <<":", " ">> \o Unwrap(outMsg).content
        /\ outLog[k].text = outLog[1].text
        /\ (Unwrap(outMsg).author = AuthorAlice /\ Unwrap(outMsg).content = TextHi)
              => outLog[k].text =
                    <<"[","D","i","s","c","o","r","d","]"," ",
                      "a","l","i","c","e",":"," ","h","i">>

\* alice's "hi" was sent to two subscribers
C7_Witness ==
    /\ Len(outLog) = 2
    /\ Unwrap(outMsg).author = AuthorAlice
    /\ Unwrap(outMsg).content = TextHi

----------------------------------------------------------------------------
(* Properties of the registry (SpecRegistry) *)

OthersKept(op) ==
    \A j \in PublicKeys \ {op.arg} : (j \in subscribers) <=> (j \in op.before)

\* C8: the registry is a set: after add(i) it contains i and add returned
\* true iff it did not before; after remove(i) it does not contain i and
\* remove returned true iff it did before; neither changes the membership of
\* another identity; contains and get_all change nothing, contains tells the
\* membership and get_all lists each member once; add(i) right after add(i)
\* returns false, and true then false if i was absent at the first.
C8_RegistryIsSet ==
    regOps # <<>> =>
        LET op == regOps[1] IN
        /\ op.op = "add" =>
              /\ op.arg \in subscribers
              /\ op.ret = (op.arg \notin op.before)
              /\ OthersKept(op)
        /\ op.op = "remove" =>
              /\ op.arg \notin subscribers
              /\ op.ret = (op.arg \in op.before)
              /\ OthersKept(op)
        /\ op.op = "contains" =>
              /\ subscribers = op.before
              /\ op.ret = (op.arg \in op.before)
        /\ op.op = "get_all" =>
              /\ subscribers = op.before
              /\ Range(op.vec) = op.before
              /\ Len(op.vec) = Cardinality(op.before)
        /\ (Len(regOps) = 2 /\ op.op = "add" /\ regOps[2].op = "add"
               /\ regOps[2].arg = op.arg) => ~op.ret

\* add(i) returned true, then add(i) returned false
C8_Witness ==
    /\ Len(regOps) = 2
    /\ regOps[1].op = "add" /\ regOps[2].op = "add"
    /\ regOps[1].arg = regOps[2].arg
    /\ regOps[2].ret /\ ~regOps[1].ret

----------------------------------------------------------------------------
(* Properties of the cache (SpecCache) *)

\* the two latest calls for identity k were made within the lifetime of each other
TwoCallsInWindow(k) ==
    /\ Len(fcall.hist[k]) = 2
    /\ fcall.hist[k][1].at - fcall.hist[k][2].at <= CACHE_LIFETIME

IsDefaultProfile(md, pubkey) ==
    /\ md.pubkey = to_bech32(pubkey)
    /\ md.name = None /\ md.display_name = None /\ md.picture = None
    /\ md.nip05 = None /\ md.about = None

----------------------------------------------------------------------------
(* Properties of get_best_name (SpecNames) *)

\* an optional text that is set and not whitespace only
HasText(o) == IsSome(o) /\ \E k \in 1..Len(Unwrap(o)) : Unwrap(o)[k] \notin Whitespace

\* C11: get_best_name of a profile is its display name if that has text
\* (is set, and not empty or whitespace only), else its name if that has
\* text, else its nip05 handle if that has text, else the first 12
\* characters of the identity's npub text followed by "..."; in every case
\* the result has a character that is not whitespace, so it is never empty.
C11_BestName ==
    probe # None =>
        LET md == Unwrap(probe).arg
            ret == Unwrap(probe).ret
        IN  /\ ret = (IF HasText(md.display_name) THEN Unwrap(md.display_name)
                      ELSE IF HasText(md.name) THEN Unwrap(md.name)
                      ELSE IF HasText(md.nip05) THEN Unwrap(md.nip05)
                      ELSE [k \in 1..15 |-> IF k <= 12 THEN md.pubkey[k] ELSE "."])
            /\ ret # <<>>
            /\ \E k \in 1..Len(ret) : ret[k] \notin Whitespace

\* a profile whose optional fields are empty or whitespace only: the name is
\* the shortened npub
C11_Witness ==
    /\ probe # None
    /\ Unwrap(probe).arg.display_name = Some(NameBlank)
    /\ Unwrap(probe).arg.name = Some(<<>>)
    /\ Unwrap(probe).arg.nip05 = Some(NameBlank)
    /\ Unwrap(probe).ret = SubSeq(to_bech32(1), 1, 12) \o <<".", ".", ".">>

----------------------------------------------------------------------------
(* Properties of SubscriberList::new (SpecLoad) *)

\* line l, trimmed, is the bech32 or the hex text of identity pk
LineNames(l, pk) == trim(l) = to_bech32(pk) \/ trim(l) = to_hex(pk)

\* C12: the set SubscriberList::new loads is exactly the set of identities
\* named by some line of the file (trimmed; in bech32 or hex): blank lines and
\* lines that do not parse add nothing and do not stop the lines before or
\* after them from counting, a key on several lines is one entry; with no
\* path configured, or a file that cannot be opened or read, the set is empty.
C12_LoadsValidLines ==
    probe # None =>
        subscribers =
            IF config.subscribers_file /\ Unwrap(probe).arg
            THEN {pk \in PublicKeys : \E k \in 1..Len(subFile) : LineNames(subFile[k], pk)}
            ELSE {}

\* a key, a line that does not parse, then another key: both keys are loaded
C12_Witness ==
    /\ probe # None
    /\ Len(subFile) = 3
    /\ subFile[1] = to_bech32(1)
    /\ subFile[2] = <<"z", "z">>
    /\ trim(subFile[3]) = to_bech32(2)
    /\ subscribers = {1, 2}

----------------------------------------------------------------------------
(* Properties of the registry and its file (SpecPersist) *)

\* C13: between operations, if every file write so far succeeded, loading
\* the subscribers file yields exactly the in-memory set, after any sequence
\* of add and remove from the loaded state; an add or remove that returned
\* false wrote nothing: the file is what it was before the call.
C13_WriteThrough ==
    /\ (regOps = <<>> \/ regOps[1].clean)
          => SubscriberList_new(TRUE, TRUE, subFile) = subscribers
    /\ (regOps # <<>> /\ ~regOps[1].ret)
          => /\ regOps[1].io = "none"
             /\ subFile = regOps[1].file_before

\* a remove from {1, 2} whose write succeeded, as every write before it: the
\* file lists 2 alone
C13_Witness ==
    /\ regOps # <<>>
    /\ regOps[1].op = "remove" /\ regOps[1].ret /\ regOps[1].clean
    /\ regOps[1].before = {1, 2}
    /\ subscribers = {2}
    /\ subFile = <<to_bech32(2)>>

----------------------------------------------------------------------------
(* Properties of the command handler over a file (SpecCommands) *)

\* the file does not load to the in-memory set: a write has failed
FileOutOfStep == SubscriberList_new(TRUE, TRUE, subFile) # subscribers

\* C14: whatever became of the file write, "!subscribe" from a sender the
\* registry did not contain leaves the sender in the in-memory set and is
\* answered "now subscribed" (add returned true), "!unsubscribe" from a
\* sender it contained leaves the sender out of the set and is answered
\* "unsubscribed" (remove returned true), also when the file then does not
\* load to the set; and the handler goes on working from the in-memory set:
\* plain text is relayed iff the set, not the file, contained its sender.
C14_WriteFailureNotRolledBack ==
    /\ (IsSubscribe /\ cur.ev.sender \notin cur.before)
          => /\ cur.ev.sender \in subscribers
             /\ CommandReply = ReplySubscribed
    /\ (IsUnsubscribe /\ cur.ev.sender \in cur.before)
          => /\ cur.ev.sender \notin subscribers
             /\ CommandReply = ReplyUnsubscribed
    /\ cur.outcome \in {"Relayed", "NotSubscribed"}
          => (cur.outcome = "Relayed" <=> cur.ev.sender \in cur.before)

\* "!subscribe" from 1 was answered "now subscribed" and 1 is in the set,
\* while the file names nobody: its write failed
C14_Witness ==
    /\ IsSubscribe /\ inPc = "idle"
    /\ cur.ev.sender = 1 /\ cur.before = {}
    /\ cur.replies[1].text = ReplySubscribed
    /\ subscribers = {1}
    /\ subFile = <<>>
    /\ FileOutOfStep

----------------------------------------------------------------------------
(* Properties of the evaluation of one inbound event (SpecInbound) *)

\* the event under evaluation is a message: the bridge's own event, or a gift
\* wrap that unwraps (one that does not is logged and dropped before any check
\* of its content)
IsInboundMessage ==
    /\ cur.outcome # "None"
    /\ (cur.ev.pubkey = my_pubkey \/ cur.ev.decrypt_ok)

\* the outcome by priority: own event, kind, command, subscription gate
OutcomeByPriority ==
    IF cur.ev.pubkey = my_pubkey THEN "SelfFiltered"
    ELSE IF cur.ev.kind # KindPrivateDirectMessage THEN "KindFiltered"
    ELSE IF trim(cur.ev.content) \in Commands THEN "CommandHandled"
    ELSE IF cur.ev.sender \in cur.before THEN "Relayed"
    ELSE "NotSubscribed"

\* private replies for the event under evaluation, sent or pending
RepliesSoFar == Len(cur.replies) + (IF inPc = "reply" THEN 1 ELSE 0)

C15_OneOutcome ==
    IsInboundMessage
    => /\ cur.outcome \in {"SelfFiltered", "KindFiltered", "CommandHandled",
                           "NotSubscribed", "Relayed"}
       /\ cur.outcome = OutcomeByPriority
       /\ RepliesSoFar <= 1
       /\ Len(cur.enq) <= 1
       /\ Len(cur.fetched) <= 1
       /\ RepliesSoFar = 1 <=> cur.outcome \in {"CommandHandled", "NotSubscribed"}
       /\ Len(cur.enq) = 1 => cur.outcome = "Relayed"
       /\ (inPc = "idle" /\ cur.outcome = "Relayed") => Len(cur.enq) = 1

IsOwnMessage ==
    /\ cur.outcome # "None"
    /\ \/ cur.ev.pubkey = my_pubkey
       \/ (cur.ev.decrypt_ok /\ cur.ev.sender = my_pubkey)

\* C16: a message whose sender is the bridge's own identity is discarded
\* with no effect: the registry is what it was (also for "!subscribe"), no
\* private reply is sent or pending, the profile is not fetched and nothing
\* is enqueued toward the chat channel.
C16_OwnMessageDiscarded ==
    IsOwnMessage
    => /\ cur.outcome \in {"SelfFiltered", "KindFiltered"}
       /\ subscribers = cur.before
       /\ RepliesSoFar = 0
       /\ cur.fetched = <<>> /\ inPc # "fetch"
       /\ cur.enq = <<>> /\ inPc # "enqueue"

----------------------------------------------------------------------------
(* Properties of the two Mutexes (SpecLocks) *)

\* some task is writing a file: File::create or a writeln of the subscribers
\* file is next, or fs::write of the cache file
FileWriteInProgress ==
    \/ inPc = "save_create"
    \/ (inPc = "save_write" /\ saveTodo # <<>>)
    \/ inPc = "cache_write"

\* some task awaits the transport: the profile request, a private reply, or
\* the outbound task's send
TransportCallInProgress == inPc \in {"fetch", "reply"} \/ outPc = "sending"

\* C17: whenever a task is writing a file or awaiting a transport call,
\* neither the registry's lock nor the cache's lock is held.
C17_NoLockAcrossIo ==
    (FileWriteInProgress \/ TransportCallInProgress)
    => (subLock = "free" /\ cacheLock = "free")

----------------------------------------------------------------------------
(* Properties of the bounded channels (SpecQueues) *)

QueuesWithinCapacity ==
    /\ Len(d2nQ) <= CHANNEL_CAPACITY
    /\ Len(nostrQ) <= CHANNEL_CAPACITY
    /\ Len(n2dQ) <= CHANNEL_CAPACITY

\* a handler ends only by putting the message it holds at the back of the
\* discord_to_nostr channel, which had room
HandlerEnqueuesOnce ==
    Len(gwPending') < Len(gwPending)
    => /\ Len(d2nQ) < CHANNEL_CAPACITY
       /\ \E i \in DOMAIN gwPending :
            /\ gwPending' = RemoveAt(gwPending, i)
            /\ d2nQ' = Append(d2nQ, gwPending[i])

\* the forwarding task lets go of its message only into the nostr_sender channel
ForwardEnqueuesOnce ==
    (fwd # None /\ fwd' # fwd)
    => /\ Len(nostrQ) < CHANNEL_CAPACITY
       /\ fwd' = None
       /\ nostrQ' = Append(nostrQ, Unwrap(fwd))

\* the inbound task leaves its send only with the Relay Message queued
InboundEnqueuesOnce ==
    (inPc = "enqueue" /\ inPc' # "enqueue")
    => /\ Len(n2dQ) < CHANNEL_CAPACITY
       /\ n2dQ' = Append(n2dQ, inTmp)

\* a channel changes only at its two ends: its producer's message is added
\* or its consumer takes the oldest one
ChannelsOnlyPushPop ==
    /\ d2nQ' # d2nQ =>
         \/ d2nQ # <<>> /\ d2nQ' = Tail(d2nQ)
         \/ \E i \in DOMAIN gwPending : d2nQ' = Append(d2nQ, gwPending[i])
    /\ nostrQ' # nostrQ =>
         \/ nostrQ # <<>> /\ nostrQ' = Tail(nostrQ)
         \/ fwd # None /\ nostrQ' = Append(nostrQ, Unwrap(fwd))
    /\ n2dQ' # n2dQ =>
         \/ n2dQ # <<>> /\ n2dQ' = Tail(n2dQ)
         \/ inPc = "enqueue" /\ n2dQ' = Append(n2dQ, inTmp)

\* C18: no channel ever holds more than 100 messages, and a producer with a
\* message in hand keeps it while its channel is full and then queues it
\* exactly once: nothing is dropped and nothing is queued twice.
C18_BoundedWithBackpressure ==
    /\ []QueuesWithinCapacity
    /\ [][/\ HandlerEnqueuesOnce
          /\ ForwardEnqueuesOnce
          /\ InboundEnqueuesOnce
          /\ ChannelsOnlyPushPop]_vars

\* a handler is suspended at the full discord_to_nostr channel
C18_Witness ==
    /\ Len(d2nQ) = CHANNEL_CAPACITY
    /\ gwPending # <<>>

----------------------------------------------------------------------------
(* Properties of the order within a direction (SpecOrder) *)

\* the chat messages on their way, oldest first: the one the outbound task
\* is sending, the nostr_sender channel, the one the forwarding task holds,
\* the discord_to_nostr channel
ChatInFlight ==
    (IF outPc = "sending"
     THEN <<[tag |-> "Discord", author |-> Unwrap(outMsg).author,
             content |-> Unwrap(outMsg).content]>>
     ELSE <<>>)
    \o nostrQ
    \o (IF fwd = None THEN <<>> ELSE <<Unwrap(fwd)>>)
    \o d2nQ

\* the Relay Messages in the order the inbound task queued them
RelayHistory == posted \o n2dQ

\* chat messages join at the back when a handler queues them and leave at
\* the front, past the forwarding task and both channels
ChatKeepsOrder ==
    \/ ChatInFlight' = ChatInFlight
    \/ ChatInFlight # <<>> /\ ChatInFlight' = Tail(ChatInFlight)
    \/ \E i \in DOMAIN gwPending : ChatInFlight' = Append(ChatInFlight, gwPending[i])

\* a send attempt is for the oldest chat message on its way
AttemptsForOldest ==
    Len(outLog') > Len(outLog)
    => /\ ChatInFlight # <<>>
       /\ outLog' = Append(outLog,
              [to |-> Head(outTodo),
               text |-> format_nostr_message(Head(ChatInFlight).author,
                                             Head(ChatInFlight).content),
               ok |-> outLog'[Len(outLog')].ok])

\* the oldest chat message leaves when every subscriber of its snapshot has
\* had its attempt
OldestLeavesWhenDone ==
    (ChatInFlight # <<>> /\ ChatInFlight' = Tail(ChatInFlight)
        /\ ChatInFlight' # ChatInFlight)
    => /\ outTodo' = <<>>
       /\ \A i \in DOMAIN outSnap' : \E j \in DOMAIN outLog' : outLog'[j].to = outSnap'[i]

\* Relay Messages are posted from the front of what was queued, which grows
\* at the back
RelaysKeepOrder ==
    /\ \/ RelayHistory' = RelayHistory
       \/ inPc = "enqueue" /\ RelayHistory' = Append(RelayHistory, inTmp)
    /\ \/ posted' = posted
       \/ n2dQ # <<>> /\ posted' = Append(posted, Head(n2dQ))

\* C19: chat messages reach the outbound task in the order the handlers
\* queued them and each gets all its send attempts before the next gets any;
\* Relay Messages are posted in the order the inbound task queued them.
C19_FifoPerDirection ==
    [][/\ ChatKeepsOrder
       /\ AttemptsForOldest
       /\ OldestLeavesWhenDone
       /\ RelaysKeepOrder]_vars

\* a subscriber has had its attempt for one chat message while a different
\* one, queued later, waits behind it
C19_Witness ==
    /\ Len(ChatInFlight) >= 2
    /\ ChatInFlight[1] # ChatInFlight[2]
    /\ outLog # <<>>
    /\ outLog[1].text = format_nostr_message(ChatInFlight[1].author,
                                             ChatInFlight[1].content)

----------------------------------------------------------------------------
(* Properties of the gateway filter (SpecGateway) *)

\* an event of the configured channel, by a human, of a regular kind
\* (a plain message or a reply)
IsBridgeable(msg) ==
    /\ msg.channel_id = ConfiguredChannel
    /\ msg.bot = FALSE
    /\ msg.kind \in {"Regular", "InlineReply"}

\* the step is the handler's run for a gateway event
HandlerRan == gwLeft' = gwLeft - 1

\* nothing of the outbound direction moves
OutboundUntouched ==
    UNCHANGED <<gwPending, d2nQ, fwd, nostrQ, outPc, outMsg, outSnap, outTodo, outLog>>

\* C20: the handler takes up a gateway event for the outbound channel only
\* when it is from the configured channel, not by a bot and of a regular
\* kind; for any other event nothing is queued and nothing is sent.
C20_GatewayFilter ==
    [][/\ HandlerRan =>
            LET msg == Unwrap(probe').arg
            IN  IF IsBridgeable(msg)
                THEN /\ gwPending' = Append(gwPending,
                            [tag |-> "Discord", author |-> msg.author,
                             content |-> msg.content])
                     /\ UNCHANGED <<d2nQ, fwd, nostrQ, outPc, outMsg, outSnap,
                                    outTodo, outLog>>
                ELSE OutboundUntouched
       /\ ~HandlerRan =>
            (d2nQ' # d2nQ /\ Len(d2nQ') > Len(d2nQ)
                => \E i \in DOMAIN gwPending : d2nQ' = Append(d2nQ, gwPending[i]))
      ]_vars

\* a bot's message in the configured channel has come after a human's: the
\* human's is on its way, the bot's is not
C20_Witness ==
    /\ probe # None
    /\ Unwrap(probe).arg.bot
    /\ Unwrap(probe).arg.channel_id = ConfiguredChannel
    /\ Unwrap(probe).arg.kind = "Regular"
    /\ Unwrap(probe).arg.content = CmdSubscribe
    /\ gwLeft = 0
    /\ gwPending = <<>>
    /\ d2nQ = <<[tag |-> "Discord", author |-> AuthorAlice, content |-> TextHi]>>

----------------------------------------------------------------------------
(* Properties of fetch_metadata's decision to ask the transport (SpecCache) *)

\* the entry is eligible for refresh at clock reading t: older than the
\* lifetime, or with neither name set
EligibleForRefresh(md, t) ==
    \/ t > md.last_updated + CACHE_LIFETIME
    \/ (md.name = None /\ md.display_name = None)

\* C21: a call asks the transport exactly when the cache has no entry for the
\* identity or the entry is eligible for refresh (stale, or without both
\* names); otherwise it returns the entry and leaves the cache as it is.
C21_AsksWhenEligible ==
    fcall.last # None =>
        LET l == Unwrap(fcall.last)
            e == l.entry_before
            at == fcall.hist[l.pubkey][1].at
        IN  /\ l.asked <=> (e = None \/ EligibleForRefresh(Unwrap(e), at))
            /\ ~l.asked => (l.ret = e /\ l.entry_after = e /\ l.others_kept)

----------------------------------------------------------------------------
(* Properties of the command recognition (SpecRecognize) *)

\* text is cmd with nothing but whitespace before and after it
IsPadded(text, cmd) ==
    \E i \in 0..Len(text) :
        /\ i + Len(cmd) <= Len(text)
        /\ SubSeq(text, i + 1, i + Len(cmd)) = cmd
        /\ \A k \in 1..i : text[k] \in {" ", "\n"}
        /\ \A k \in (i + Len(cmd) + 1)..Len(text) : text[k] \in {" ", "\n"}

\* the private replies a command can cause
CommandReplies ==
    {ReplySubscribed, ReplyAlreadySubscribed, ReplyUnsubscribed,
     ReplyNotCurrentlySubscribed, ReplyHelp}

\* the reply sent or on its way for the event under evaluation
RepliesOfCur ==
    {cur.replies[i].text : i \in DOMAIN cur.replies}
        \cup (IF inPc = "reply" THEN {inTmp} ELSE {})

\* C22: a private message is handled as a command exactly when its text
\* without the surrounding whitespace is "!subscribe", "!unsubscribe" or
\* "!help", letter for letter; any other text changes no subscription, gets
\* no command reply, and goes to the subscription gate: relayed for a
\* subscriber, the "not subscribed" notice otherwise.
C22_ExactCommands ==
    cur.outcome # "None" =>
        LET text == cur.ev.content
            who == cur.ev.sender
        IN  /\ cur.outcome = "CommandHandled"
                <=> \E cmd \in {CmdSubscribe, CmdUnsubscribe, CmdHelp} : IsPadded(text, cmd)
            /\ IsPadded(text, CmdSubscribe) => subscribers = cur.before \cup {who}
            /\ IsPadded(text, CmdUnsubscribe) => subscribers = cur.before \ {who}
            /\ IsPadded(text, CmdHelp) =>
                   (subscribers = cur.before /\ RepliesOfCur \subseteq {ReplyHelp})
            /\ cur.outcome # "CommandHandled" =>
                   /\ subscribers = cur.before
                   /\ RepliesOfCur \cap CommandReplies = {}
                   /\ cur.outcome = IF who \in cur.before THEN "Relayed"
                                    ELSE "NotSubscribed"

\* "!subscribe now" from a subscriber has been queued for the chat channel as
\* plain text
C22_Witness ==
    /\ cur.outcome = "Relayed"
    /\ cur.ev.content = CmdSubscribe \o <<" ","n","o","w">>
    /\ Len(cur.enq) = 1
    /\ subscribers = cur.before

----------------------------------------------------------------------------
(* Properties of chat messages that read like commands (SpecChatCommands) *)

\* the outbound task takes the next message off its channel
OutboundTakes == outPc = "idle" /\ nostrQ # <<>> /\ nostrQ' = Tail(nostrQ)

\* the stores and the inbound task's state, replies included
StoresAndReplies == <<subscribers, subFile, cache, cacheFile, cur, inPc, inTmp, n2dQ>>

\* C23: a chat message is never read as a command: whatever its content,
\* "!subscribe", "!unsubscribe" and "!help" included, the outbound task sends
\* it, formatted, to every subscriber of the snapshot, and no step of the
\* outbound direction changes the registry or the cache or answers anybody.
C23_ChatNeverInterpreted ==
    [][/\ UNCHANGED StoresAndReplies
       /\ OutboundTakes =>
            LET m == Head(nostrQ)
            IN  /\ outMsg' = Some([author |-> m.author, content |-> m.content,
                                   nostr_message |-> DiscordPrefix \o m.author
                                                     \o <<":", " ">> \o m.content])
                /\ Len(outSnap') = Cardinality(subscribers)
                /\ {outSnap'[i] : i \in DOMAIN outSnap'} = subscribers
                /\ outTodo' = outSnap'
       /\ Len(outLog') > Len(outLog) =>
            outLog'[Len(outLog')].text = Unwrap(outMsg).nostr_message
      ]_vars

\* "!unsubscribe" said in the chat channel has been sent to both subscribers,
\* who are subscribers still
C23_Witness ==
    /\ outPc = "idle"
    /\ outMsg # None
    /\ Unwrap(outMsg).content = CmdUnsubscribe
    /\ {outLog[i].to : i \in DOMAIN outLog} = {1, 2}
    /\ \A i \in DOMAIN outLog :
           outLog[i].text = DiscordPrefix \o AuthorAlice \o <<":", " ">> \o CmdUnsubscribe
    /\ subscribers = {1, 2}

----------------------------------------------------------------------------
(* Properties of the kind filter and of events that do not decrypt (SpecInbound) *)

\* the event under evaluation does not decrypt, or decrypts to a rumor of
\* another kind than the private direct message
NotADirectMessage ==
    /\ cur.outcome # "None"
    /\ (~cur.ev.decrypt_ok \/ cur.ev.kind # KindPrivateDirectMessage)

\* C24: an event that does not decrypt, or whose rumor is not of the direct
\* message kind, is dropped before its text is looked at: whatever the text
\* and whether or not the sender is subscribed, the registry stays as it
\* was, no reply is sent, no profile is asked for and nothing is queued for
\* the chat channel.
C24_DroppedBeforeCommands ==
    NotADirectMessage
    => /\ cur.outcome \in {"SelfFiltered", "DecryptFailed", "KindFiltered"}
       /\ subscribers = cur.before
       /\ inPc = "idle"
       /\ inTmp = None
       /\ cur.replies = <<>>
       /\ cur.fetched = <<>>
       /\ cur.enq = <<>>

\* a subscriber's "!unsubscribe" in a rumor of another kind: still subscribed
C24_Witness ==
    /\ cur.outcome = "KindFiltered"
    /\ cur.ev.kind = KindOther
    /\ trim(cur.ev.content) = CmdUnsubscribe
    /\ cur.ev.sender \in subscribers
    /\ cur.replies = <<>>

----------------------------------------------------------------------------
(* Properties of the snapshot under concurrent commands (Spec) *)

\* C25: the recipients of a chat message are the registry as it is at the one
\* moment the outbound task takes the message up; the snapshot is not touched
\* afterwards, and a subscription or unsubscription that arrives while the
\* message is being sent changes neither the attempts made nor the ones
\* still to make: each send goes to the next pubkey of the snapshot, in or
\* out of the registry by then.
C25_SnapshotFixesRecipients ==
    [][/\ TakesSnapshot =>
            /\ Range(outSnap') = subscribers
            /\ Len(outSnap') = Cardinality(subscribers)
            /\ outTodo' = outSnap'
       /\ ~TakesSnapshot => outSnap' = outSnap
       /\ subscribers' # subscribers =>
            (outTodo' = outTodo /\ outLog' = outLog /\ outPc' = outPc)
       /\ Len(outLog') > Len(outLog) =>
            /\ outLog'[Len(outLog')].to = Head(outTodo)
            /\ outTodo' = Tail(outTodo)
      ]_vars

\* the chat message was taken up when 1 alone was subscribed; its send to 1
\* is still to come, and meanwhile 1 has unsubscribed and 2 has subscribed:
\* the recipients to go are the snapshot's
C25_Witness ==
    /\ outPc = "sending"
    /\ outSnap = <<1>>
    /\ outTodo = <<1>>
    /\ outLog = <<>>
    /\ subscribers = {2}
    /\ inPc = "idle"

----------------------------------------------------------------------------
(* Properties of the cache's map and file under put (SpecPuts) *)

\* the keys that have an entry in map c
CachedKeys(c) == {k \in DOMAIN c : c[k] # <<>>}

\* the latest call was put: the entry of its profile's key is that profile,
\* every other entry is what it was, and after a write that succeeded the
\* file is the whole map
PutReplacesOne ==
    (probe # <<>> /\ probe[1].fn = "put")
    => LET md == probe[1].arg
           before == probe[1].before
       IN  /\ cache[md.pubkey] = <<md>>
           /\ \A k \in DOMAIN cache \ {md.pubkey} : cache[k] = before[k]
           /\ DOMAIN cache = DOMAIN before
           /\ probe[1].io = "ok" => cacheFile = <<cache>>

\* C26: put(p) sets the entry of p's key and no other; after a put whose
\* write succeeded the cache file is the whole map; the file is only ever
\* written as the whole map, and no step takes an entry away, so the cached
\* keys only grow.
C26_FullSnapshotAndGrowth ==
    /\ []PutReplacesOne
    /\ [][/\ CachedKeys(cache) \subseteq CachedKeys(cache')
          /\ cacheFile' # cacheFile => cacheFile' \in {<<cache'>>, <<>>}]_vars

\* the profile of 1 that came from the file has been replaced while 2 had
\* an entry of its own: the file is the map with both
C26_Witness ==
    /\ probe # <<>> /\ probe[1].fn = "put" /\ probe[1].io = "ok"
    /\ probe[1].arg.pubkey = to_bech32(1)
    /\ probe[1].before[to_bech32(1)] # <<>>
    /\ probe[1].before[to_bech32(1)] # <<probe[1].arg>>
    /\ probe[1].before[to_bech32(2)] # <<>>
    /\ cacheFile = <<cache>>
    /\ CachedKeys(cache) = {to_bech32(1), to_bech32(2)}

----------------------------------------------------------------------------
(* Properties of the outbound direction under fair scheduling (SpecLive) *)

\* an accepted chat message is somewhere between its handler and its last send
ChatUnderway ==
    \/ gwPending # <<>> \/ d2nQ # <<>> \/ fwd # <<>> \/ nostrQ # <<>>
    \/ outPc # "idle"

\* the fan-out of the message taken up is over: every pubkey of its snapshot
\* has had its attempt
FanOutDone ==
    /\ outPc = "idle"
    /\ [k \in 1..Len(outLog) |-> outLog[k].to] = outSnap

\* C27: every accepted chat message leaves the channels and the outbound
\* task behind it, and a fan-out once begun reaches every pubkey of its
\* snapshot, whether sends fail or commands arrive meanwhile.
C27_OutboundDrains ==
    /\ ChatUnderway ~> ~ChatUnderway
    /\ (outPc = "sending") ~> FanOutDone

\* both chat messages are through, a send has failed on the way and a
\* command has been handled meanwhile
C27_Witness ==
    /\ ~ChatUnderway
    /\ gwLeft = 0
    /\ inLeft = 0 /\ inPc = "idle"
    /\ outMsg # <<>>
    /\ \E k \in 1..Len(outLog) : ~outLog[k].ok

====
